---- MODULE Spec2Model ----
(***************************************************************************)
(* Model of the DSN antenna control software (SDRAST/Antenna_DSN):         *)
(*   - the threaded antenna simulator, src/simulator/nmc_sim43.py          *)
(*     (connection handler, two-level command dispatch, shared antenna     *)
(*     state, rate-integrator and position-tracker worker threads);        *)
(*   - the client NMCServer of src/nmc_server.py (connect / simulate /     *)
(*     command / get / onsource).                                          *)
(*                                                                         *)
(* Text is modelled character by character: a Python bytes or str object   *)
(* is a record [t, v] whose v is the sequence of its characters, so that   *)
(* split, strip, upper, float() and str() do what they do in the source    *)
(* and a bytes object never equals a str object (Python 3).                *)
(* Floats are fixed-point integers in units of 1/Scale.                    *)
(***************************************************************************)
EXTENDS Integers, Sequences, FiniteSets, TLC

(***************************************************************************)
(* Bounds of the model (not program constants).                            *)
(***************************************************************************)
\* requests a client sends on one connection / calls one caller makes
MaxSends == 2
\* requests per connection, and calls of the caller, when worker threads run
MaxRequests == 1
\* worker threads created in one run
MaxThreads == 2
\* ticks one worker thread performs
MaxTicks == 2
\* fixed-point resolution of a float: 1/Scale
Scale == 10 * 10 * 10

(***************************************************************************)
(* Characters and literal strings of the source.                           *)
(***************************************************************************)
Chars ==
    ("ANTENNA" :> <<"A","N","T","E","N","N","A">>)
 @@ ("PARAM" :> <<"P","A","R","A","M">>)
 @@ ("GET_WEATHER" :> <<"G","E","T","_","W","E","A","T","H","E","R">>)
 @@ ("GET_OFFSETS" :> <<"G","E","T","_","O","F","F","S","E","T","S">>)
 @@ ("GET_AZEL" :> <<"G","E","T","_","A","Z","E","L">>)
 @@ ("GET_HADEC" :> <<"G","E","T","_","H","A","D","E","C">>)
 @@ ("TERMINATE" :> <<"T","E","R","M","I","N","A","T","E">>)
 @@ ("ONSOURCE" :> <<"O","N","S","O","U","R","C","E">>)
 @@ ("WAITONSOURCE" :> <<"W","A","I","T","O","N","S","O","U","R","C","E">>)
 @@ ("GET_COMMANDS" :> <<"G","E","T","_","C","O","M","M","A","N","D","S">>)
 @@ ("GET_PARAMS" :> <<"G","E","T","_","P","A","R","A","M","S">>)
 @@ ("ATTEN" :> <<"A","T","T","E","N">>)
 @@ ("HI" :> <<"H","I">>)
 @@ ("RO" :> <<"R","O">>)
 @@ ("PO" :> <<"P","O">>)
 @@ ("CLR" :> <<"C","L","R">>)
 @@ ("TRK" :> <<"T","R","K">>)
 @@ ("MOVE" :> <<"M","O","V","E">>)
 @@ ("SEMN" :> <<"S","E","M","N">>)
 @@ ("RADEC" :> <<"R","A","D","E","C">>)
 @@ ("AZEL" :> <<"A","Z","E","L">>)
 @@ ("temperature" :> <<"t","e","m","p","e","r","a","t","u","r","e">>)
 @@ ("pressure" :> <<"p","r","e","s","s","u","r","e">>)
 @@ ("windspeed" :> <<"w","i","n","d","s","p","e","e","d">>)
 @@ ("winddirection" :> <<"w","i","n","d","d","i","r","e","c","t","i","o","n">>)
 @@ ("precipitation" :> <<"p","r","e","c","i","p","i","t","a","t","i","o","n">>)
 @@ ("total_precipitation" :> <<"t","o","t","a","l","_","p","r","e","c","i","p","i","t","a","t","i","o","n">>)
 @@ ("humidity" :> <<"h","u","m","i","d","i","t","y">>)
 @@ ("WxHr" :> <<"W","x","H","r">>)
 @@ ("WxMin" :> <<"W","x","M","i","n">>)
 @@ ("WxSec" :> <<"W","x","S","e","c">>)
 @@ ("AzimuthPredictedAngle" :> <<"A","z","i","m","u","t","h","P","r","e","d","i","c","t","e","d","A","n","g","l","e">>)
 @@ ("AzimuthAngle" :> <<"A","z","i","m","u","t","h","A","n","g","l","e">>)
 @@ ("ElevationPredictedAngle" :> <<"E","l","e","v","a","t","i","o","n","P","r","e","d","i","c","t","e","d","A","n","g","l","e">>)
 @@ ("ElevationAngle" :> <<"E","l","e","v","a","t","i","o","n","A","n","g","l","e">>)
 @@ ("WRAP" :> <<"W","R","A","P">>)
 @@ ("AzimuthTrackingError" :> <<"A","z","i","m","u","t","h","T","r","a","c","k","i","n","g","E","r","r","o","r">>)
 @@ ("ElevationTrackingError" :> <<"E","l","e","v","a","t","i","o","n","T","r","a","c","k","i","n","g","E","r","r","o","r">>)
 @@ ("Status" :> <<"S","t","a","t","u","s">>)
 @@ ("AxisAngleTime" :> <<"A","x","i","s","A","n","g","l","e","T","i","m","e">>)
 @@ ("ElevationManualOffset" :> <<"E","l","e","v","a","t","i","o","n","M","a","n","u","a","l","O","f","f","s","e","t">>)
 @@ ("ElevationPositionOffset" :> <<"E","l","e","v","a","t","i","o","n","P","o","s","i","t","i","o","n","O","f","f","s","e","t">>)
 @@ ("ElevationAccumulatedRateOffset" :> <<"E","l","e","v","a","t","i","o","n","A","c","c","u","m","u","l","a","t","e","d","R","a","t","e","O","f","f","s","e","t">>)
 @@ ("CrossElevationManualOffset" :> <<"C","r","o","s","s","E","l","e","v","a","t","i","o","n","M","a","n","u","a","l","O","f","f","s","e","t">>)
 @@ ("CrossElevationPositionOffset" :> <<"C","r","o","s","s","E","l","e","v","a","t","i","o","n","P","o","s","i","t","i","o","n","O","f","f","s","e","t">>)
 @@ ("CrossElevationAccumulatedRateOffset" :> <<"C","r","o","s","s","E","l","e","v","a","t","i","o","n","A","c","c","u","m","u","l","a","t","e","d","R","a","t","e","O","f","f","s","e","t">>)
 @@ ("AzimuthAngleWrap" :> <<"A","z","i","m","u","t","h","A","n","g","l","e","W","r","a","p">>)
 @@ ("ANGTIME" :> <<"A","N","G","T","I","M","E">>)
 @@ ("CurrentDoyTime" :> <<"C","u","r","r","e","n","t","D","o","y","T","i","m","e">>)
 @@ ("EL" :> <<"E","L">>)
 @@ ("XEL" :> <<"X","E","L">>)
 @@ ("AZ" :> <<"A","Z">>)
 @@ ("COMPLETED" :> <<"C","O","M","P","L","E","T","E","D">>)
 @@ ("REJECTED" :> <<"R","E","J","E","C","T","E","D">>)
 @@ ("ERROR" :> <<"E","R","R","O","R">>)
 @@ ("COMPLETED ONSOURCE" :> <<"C","O","M","P","L","E","T","E","D"," ","O","N","S","O","U","R","C","E">>)
 @@ ("COMPLETED SLEWING" :> <<"C","O","M","P","L","E","T","E","D"," ","S","L","E","W","I","N","G">>)
 @@ ("operational" :> <<"o","p","e","r","a","t","i","o","n","a","l">>)
 @@ ("FOO" :> <<"F","O","O">>)
 @@ ("antenna" :> <<"a","n","t","e","n","n","a">>)
 @@ ("po" :> <<"p","o">>)
 @@ ("el" :> <<"e","l">>)
 @@ ("xel" :> <<"x","e","l">>)
 @@ ("Bogus" :> <<"B","o","g","u","s">>)
 @@ ("18000000" :> <<"1","8","0","0","0","0","0","0">>)
 @@ ("5.0" :> <<"5",".","0">>)
 @@ ("2.5" :> <<"2",".","5">>)
 @@ ("1.0" :> <<"1",".","0">>)
 @@ ("0.0" :> <<"0",".","0">>)
 @@ ("10" :> <<"1","0">>)
 @@ ("20" :> <<"2","0">>)
 @@ ("abc" :> <<"a","b","c">>)
 @@ ("marginal" :> <<"m","a","r","g","i","n","a","l">>)
 @@ ("critical" :> <<"c","r","i","t","i","c","a","l">>)
 @@ ("Operational" :> <<"O","p","e","r","a","t","i","o","n","a","l">>)
 @@ ("degraded" :> <<"d","e","g","r","a","d","e","d">>)
 @@ ("CDSCC" :> <<"C","D","S","C","C">>)
 @@ ("None" :> <<"N","o","n","e">>)
 @@ ("60" :> <<"6","0">>)
 @@ ("45" :> <<"4","5">>)
 @@ ("Critical" :> <<"C","r","i","t","i","c","a","l">>)
 @@ ("SLEWING" :> <<"S","L","E","W","I","N","G">>)
 @@ ("14" :> <<"1","4">>)
 @@ ("10.0" :> <<"1","0",".","0">>)
 @@ ("10.2" :> <<"1","0",".","2">>)
 @@ ("10.4" :> <<"1","0",".","4">>)
 @@ ("60.0" :> <<"6","0",".","0">>)
 @@ ("60.1" :> <<"6","0",".","1">>)
 @@ ("60.2" :> <<"6","0",".","2">>)
 @@ ("0" :> <<"0">>)
 @@ ("0.2" :> <<"0",".","2">>)
 @@ ("HA" :> <<"H","A">>)
 @@ ("DEC" :> <<"D","E","C">>)
 @@ ("XDEC" :> <<"X","D","E","C">>)
 @@ ("J2000" :> <<"J","2","0","0","0">>)
 @@ ("j2000" :> <<"j","2","0","0","0">>)
 @@ ("now" :> <<"n","o","w">>)
 @@ ("Now" :> <<"N","o","w">>)
 @@ ("B1950" :> <<"B","1","9","5","0">>)
 @@ ("ANTENNA PO" :> <<"A","N","T","E","N","N","A"," ","P","O">>)
 @@ ("ANTENNA RO" :> <<"A","N","T","E","N","N","A"," ","R","O">>)
 @@ ("ANTENNA MOVE" :> <<"A","N","T","E","N","N","A"," ","M","O","V","E">>)
 @@ ("ANTENNA RADEC" :> <<"A","N","T","E","N","N","A"," ","R","A","D","E","C">>)
 @@ ("antenna_status" :> <<"a","n","t","e","n","n","a","_","s","t","a","t","u","s">>)
 @@ ("point_status" :> <<"p","o","i","n","t","_","s","t","a","t","u","s">>)
 @@ ("angle" :> <<"a","n","g","l","e">>)
 @@ ("az" :> <<"a","z">>)
 @@ ("az_tol" :> <<"a","z","_","t","o","l">>)
 @@ ("el_tol" :> <<"e","l","_","t","o","l">>)
 @@ ("az_pred_tol" :> <<"a","z","_","p","r","e","d","_","t","o","l">>)
 @@ ("el_pred_tol" :> <<"e","l","_","p","r","e","d","_","t","o","l">>)
 @@ ("offset" :> <<"o","f","f","s","e","t">>)
 @@ ("offset_rate" :> <<"o","f","f","s","e","t","_","r","a","t","e">>)

UpperMap ==
    ("a" :> "A")
 @@ ("b" :> "B")
 @@ ("c" :> "C")
 @@ ("d" :> "D")
 @@ ("e" :> "E")
 @@ ("f" :> "F")
 @@ ("g" :> "G")
 @@ ("h" :> "H")
 @@ ("i" :> "I")
 @@ ("j" :> "J")
 @@ ("k" :> "K")
 @@ ("l" :> "L")
 @@ ("m" :> "M")
 @@ ("n" :> "N")
 @@ ("o" :> "O")
 @@ ("p" :> "P")
 @@ ("q" :> "Q")
 @@ ("r" :> "R")
 @@ ("s" :> "S")
 @@ ("t" :> "T")
 @@ ("u" :> "U")
 @@ ("v" :> "V")
 @@ ("w" :> "W")
 @@ ("x" :> "X")
 @@ ("y" :> "Y")
 @@ ("z" :> "Z")

SP == " "
NL == "\n"
DigitChar == <<"0", "1", "2", "3", "4", "5", "6", "7", "8", "9">>

(***************************************************************************)
(* Python values.                                                          *)
(***************************************************************************)
B(s) == [t |-> "bytes", v |-> s]
S(s) == [t |-> "str", v |-> s]
F(x) == [t |-> "float", v |-> x]
I(x) == [t |-> "int", v |-> x]
None == [t |-> "None", v |-> 0]
\* a raised exception, as the outcome of a call
Raise(e) == [t |-> "exc", v |-> e]

IsText(o) == o.t \in {"bytes", "str"}
IsExc(o) == o.t = "exc"
\* Python ==: objects of different types are never equal
PyEq(a, b) == a.t = b.t /\ a.v = b.v

\* first index of character ch in s, 0 when absent  (find() == -1)
IndexOf(s, ch) ==
    IF \E i \in 1..Len(s) : s[i] = ch
    THEN CHOOSE i \in 1..Len(s) : s[i] = ch /\ \A j \in 1..(i-1) : s[j] # ch
    ELSE 0

\* s.split(sep) for a one-character separator
RECURSIVE Split(_, _)
Split(s, sep) ==
    LET i == IndexOf(s, sep)
    IN  IF i = 0 THEN <<s>>
        ELSE <<SubSeq(s, 1, i-1)>> \o Split(SubSeq(s, i+1, Len(s)), sep)

\* s.strip()
Strip(s) ==
    LET keep == {i \in 1..Len(s) : s[i] \notin {" ", "\n", "\t", "\r"}}
    IN  IF keep = {} THEN <<>>
        ELSE SubSeq(s, CHOOSE i \in keep : \A j \in keep : i <= j,
                       CHOOSE i \in keep : \A j \in keep : i >= j)

\* s.upper()
Upper(s) == [i \in 1..Len(s) |->
                IF s[i] \in DOMAIN UpperMap THEN UpperMap[s[i]] ELSE s[i]]

\* s.lower()
Lower(s) == [i \in 1..Len(s) |->
                IF \E c \in DOMAIN UpperMap : UpperMap[c] = s[i]
                THEN CHOOSE c \in DOMAIN UpperMap : UpperMap[c] = s[i]
                ELSE s[i]]

\* sep.join(parts)
RECURSIVE Join(_, _)
Join(parts, sep) ==
    IF Len(parts) = 0 THEN <<>>
    ELSE IF Len(parts) = 1 THEN parts[1]
    ELSE parts[1] \o sep \o Join(Tail(parts), sep)

AllDigits(s) == \A i \in 1..Len(s) : \E d \in 1..10 : DigitChar[d] = s[i]

RECURSIVE NatOf(_)
NatOf(ds) ==
    IF Len(ds) = 0 THEN 0
    ELSE 10 * NatOf(SubSeq(ds, 1, Len(ds)-1)) + (CHOOSE d \in 0..9 : DigitChar[d + 1] = ds[Len(ds)])

RECURSIVE NatStr(_)
NatStr(n) ==
    IF n < 10 THEN <<DigitChar[n+1]>>
    ELSE NatStr(n \div 10) \o <<DigitChar[(n % 10) + 1]>>

\* float(text): [sign] digits [. digits], at most three fractional digits (the
\* fixed-point resolution); anything else is a ValueError
ParseFloat(s) ==
    LET signed == Len(s) > 0 /\ s[1] \in {"-", "+"}
        body   == IF signed THEN Tail(s) ELSE s
        dot    == IndexOf(body, ".")
        ip     == IF dot = 0 THEN body ELSE SubSeq(body, 1, dot-1)
        fp     == IF dot = 0 THEN <<>> ELSE SubSeq(body, dot+1, Len(body))
        ok     == Len(ip) >= 1 /\ AllDigits(ip) /\ Len(fp) <= 3 /\ AllDigits(fp)
        frac   == NatOf(fp) * (IF Len(fp) = 1 THEN 100 ELSE IF Len(fp) = 2 THEN 10 ELSE 1)
        mag    == NatOf(ip) * Scale + frac
    IN  IF ~ok THEN Raise("ValueError")
        ELSE F(IF signed /\ s[1] = "-" THEN 0 - mag ELSE mag)

\* float(o)
PyFloat(o) ==
    IF IsText(o) THEN ParseFloat(Strip(o.v))
    ELSE IF o.t \in {"float", "int"} THEN F(IF o.t = "int" THEN o.v * Scale ELSE o.v)
    ELSE Raise("TypeError")

\* str(x) of a float: shortest decimal, at least one fractional digit
FormatFloat(x) ==
    LET mag  == IF x < 0 THEN 0 - x ELSE x
        frac == mag % Scale
        d1   == DigitChar[(frac \div 100) + 1]
        d2   == DigitChar[((frac \div 10) % 10) + 1]
        d3   == DigitChar[(frac % 10) + 1]
        fs   == IF frac % 10 # 0 THEN <<d1, d2, d3>>
                ELSE IF frac % 100 # 0 THEN <<d1, d2>>
                ELSE <<d1>>
    IN  (IF x < 0 THEN <<"-">> ELSE <<>>) \o NatStr(mag \div Scale) \o <<".">> \o fs

\* str(o), "{}".format(o)
PyStr(o) ==
    IF o.t = "float" THEN FormatFloat(o.v)
    ELSE IF o.t = "int"
         THEN (IF o.v < 0 THEN <<"-">> ELSE <<>>) \o NatStr(IF o.v < 0 THEN 0 - o.v ELSE o.v)
    ELSE IF o.t = "str" THEN o.v
    ELSE IF o.t = "None" THEN <<"N", "o", "n", "e">>
    ELSE <<"b", "'">> \o o.v \o <<"'">>

(***************************************************************************)
(* State.                                                                  *)
(***************************************************************************)
VARIABLES
    \* --- simulator: one entry per execution context -----------------------
    wire,         \* bytes a client has sent that the handler has not read yet
    peer_closed,  \* the client has closed its side of the connection
    sentlog,      \* the request lines a client has sent on the connection
    pc,           \* position of the context in handle() or in the running call
    data,         \* handle(): the last chunk received
    accum,        \* handle(): the request accumulated so far
    loc,          \* locals of the call the context is running
    hist,         \* log of the requests the context has completed, with replies
    \* --- simulator: SimulatedAntenna --------------------------------------
    offsets,              \* self.offsets[axis][field]
    point,                \* self.point[axis][field]
    weather,              \* temperature, pressure, humidity, windspeed, winddirection
    onsource_counter,     \* self.onsource_counter
    lock,                 \* holder of self.lock, 0 when free
    offset_rate_thread,   \* self.offset_rate_thread, 0 for None
    point_antenna_thread, \* self.point_antenna_thread, 0 for None
    threads,              \* the worker threads created so far
    \* --- client: NMCServer of nmc_server.py -------------------------------
    client,       \* sock, _simulated, _wsn, _site, _dss, server_initialized, status
    peer,         \* the server the client's socket talks to
    call          \* the client call in progress or last completed

simvars == <<wire, peer_closed, sentlog, pc, data, accum, loc, hist,
             offsets, point, weather, onsource_counter, lock,
             offset_rate_thread, point_antenna_thread, threads>>
clientvars == <<client, peer, call>>
vars == <<simvars, clientvars>>

\* connection handler threads (one per accepted connection)
Conns == {1, 2}
Ctx == Conns \cup {3}

(***************************************************************************)
(* SimulatedAntenna.__init__: the registries, in registration order.       *)
(***************************************************************************)
recv_val == 8
\* slew_rate of PointThread, degrees per tick, in 1/Scale
slew_rate == 230
\* initial elevation
ElStart == 88000
\* antenna_wrap[43]['wrap']['center'], from the configuration package
AzStart == 17000

CommandNames ==
    <<"ANTENNA", "PARAM", "GET_WEATHER", "GET_OFFSETS", "GET_AZEL", "GET_HADEC",
      "TERMINATE", "ONSOURCE", "WAITONSOURCE", "GET_COMMANDS", "GET_PARAMS", "ATTEN">>

SubcommandNames ==
    <<"HI", "RO", "PO", "CLR", "TRK", "MOVE", "SEMN", "RADEC", "AZEL">>

ParamNames ==
    <<"temperature", "pressure", "windspeed", "winddirection", "precipitation",
      "total_precipitation", "humidity", "WxHr", "WxMin", "WxSec",
      "AzimuthPredictedAngle", "AzimuthAngle", "ElevationPredictedAngle",
      "ElevationAngle", "WRAP", "AzimuthTrackingError", "ElevationTrackingError",
      "Status", "AxisAngleTime", "ElevationManualOffset", "ElevationPositionOffset",
      "ElevationAccumulatedRateOffset", "CrossElevationManualOffset",
      "CrossElevationPositionOffset", "CrossElevationAccumulatedRateOffset",
      "AzimuthAngleWrap", "ANGTIME", "CurrentDoyTime">>

\* keys of self.offsets, in insertion order (str keys)
OffsetAxes == <<"EL", "XEL">>
\* text produced from the wall clock (time.time(), utcnow()): opaque
ClockText == <<"T">>

\* the key of a registry (keys are bytes literals) that equals token o, "" if none
Lookup(names, o) ==
    IF \E i \in 1..Len(names) : PyEq(B(Chars[names[i]]), o)
    THEN names[CHOOSE i \in 1..Len(names) : PyEq(B(Chars[names[i]]), o)]
    ELSE ""

\* the key of self.offsets / self.point (str keys) that equals o, "" if none
AxisKey(names, o) ==
    IF \E i \in 1..Len(names) : PyEq(S(Chars[names[i]]), o)
    THEN names[CHOOSE i \in 1..Len(names) : PyEq(S(Chars[names[i]]), o)]
    ELSE ""

\* o.upper() / o.strip() keep the type of o
PyUpper(o) == [t |-> o.t, v |-> Upper(o.v)]
\* process_request, lines 292-298: request_str.split(b" ") raises on anything
\* but bytes, and the except clause substitutes ["ERROR"]
RequestSplit(request) ==
    IF request.t = "bytes"
    THEN LET parts == Split(request.v, SP)
         IN  [i \in 1..Len(parts) |-> B(Strip(parts[i]))]
    ELSE <<S(Chars["ERROR"])>>

ParamValue(p) ==
    CASE p = "temperature"   -> weather.temperature
      [] p = "pressure"      -> weather.pressure
      [] p = "windspeed"     -> weather.windspeed
      [] p = "winddirection" -> weather.winddirection
      [] p = "humidity"      -> weather.humidity
      [] p \in {"precipitation", "total_precipitation", "WxHr", "WxMin", "WxSec",
                "WRAP", "AzimuthAngleWrap", "AzimuthTrackingError",
                "ElevationTrackingError", "AxisAngleTime"} -> I(0)
      [] p = "AzimuthPredictedAngle"   -> F(point["AZ"].predicted)
      [] p = "AzimuthAngle"            -> F(point["AZ"].actual)
      [] p = "ElevationPredictedAngle" -> F(point["EL"].predicted)
      [] p = "ElevationAngle"          -> F(point["EL"].actual)
      [] p = "Status"                  -> S(Chars["operational"])
      [] p \in {"ElevationManualOffset", "ElevationAccumulatedRateOffset"}
                                       -> F(offsets["EL"].accumulated)
      [] p = "ElevationPositionOffset" -> F(offsets["EL"].offset)
      [] p \in {"CrossElevationManualOffset", "CrossElevationAccumulatedRateOffset"}
                                       -> F(offsets["XEL"].accumulated)
      [] p = "CrossElevationPositionOffset" -> F(offsets["XEL"].offset)
      [] p = "ANGTIME" -> S(ClockText \o <<SP>> \o Chars["18000000"] \o <<SP, "0">>)
      [] p = "CurrentDoyTime" -> S(ClockText)

\* "COMPLETED a b c ...".format(...)
Completed(fields) ==
    S(Join(<<Chars["COMPLETED"]>> \o [i \in 1..Len(fields) |-> PyStr(fields[i])], <<SP>>))

\* ", ".join(list(registry.keys())) on a str separator: the keys are bytes, so
\* str.join raises TypeError; b", ".join(...) returns bytes
JoinKeys(sep, names) ==
    IF sep.t = "bytes"
    THEN B(Join([i \in 1..Len(names) |-> Chars[names[i]]], sep.v))
    ELSE Raise("TypeError")

(***************************************************************************)
(* Dispatch: process_request, antenna_cmd and the handlers that answer     *)
(* without running further steps.                                          *)
(***************************************************************************)
Reply(o) == [kind |-> "reply", resp |-> o, op |-> ""]
CallOp(name) == [kind |-> "call", resp |-> None, op |-> name]

\* handlers whose antenna_ro and antenna_po ignore tokens after the fourth
SubcommandIgnoringExtra(h, rl) ==
    CASE h \in {"HI", "TRK", "MOVE", "SEMN"} -> Reply(S(Chars["COMPLETED"]))
      [] h = "RO" -> IF Len(rl) >= 4 THEN CallOp("antenna_ro")
                     ELSE Reply(S(Chars["REJECTED"]))
      [] h = "PO" -> IF Len(rl) >= 4 THEN CallOp("antenna_po")
                     ELSE Reply(S(Chars["REJECTED"]))
      [] h = "CLR" ->
            IF Len(rl) > 2
            THEN IF PyEq(rl[3], S(Chars["RO"])) THEN CallOp("clr_ro")
                 ELSE IF PyEq(rl[3], S(Chars["PO"])) THEN CallOp("clr_po")
                 ELSE Reply(S(Chars["REJECTED"]))
            ELSE Reply(S(Chars["REJECTED"]))
      [] h = "RADEC" -> IF Len(rl) = 4 THEN CallOp("antenna_radec")
                        ELSE Reply(S(Chars["REJECTED"]))
      [] h = "AZEL" -> Reply(Raise("NotImplementedError"))

\* the ANTENNA sub-command handlers antenna_hi ... antenna_azel, called with the
\* request list; h is the registry key that selected the handler
Subcommand(h, rl) ==
    CASE h \in {"HI", "TRK", "MOVE", "SEMN"} -> Reply(S(Chars["COMPLETED"]))
      [] h = "RO" -> IF Len(rl) = 4 THEN CallOp("antenna_ro")
                     ELSE Reply(S(Chars["REJECTED"]))
      [] h = "PO" -> IF Len(rl) = 4 THEN CallOp("antenna_po")
                     ELSE Reply(S(Chars["REJECTED"]))
      [] h = "CLR" ->
            IF Len(rl) > 2
            THEN IF PyEq(rl[3], S(Chars["RO"])) THEN CallOp("clr_ro")
                 ELSE IF PyEq(rl[3], S(Chars["PO"])) THEN CallOp("clr_po")
                 ELSE Reply(S(Chars["REJECTED"]))
            ELSE Reply(S(Chars["REJECTED"]))
      [] h = "RADEC" -> IF Len(rl) = 4 THEN CallOp("antenna_radec")
                        ELSE Reply(S(Chars["REJECTED"]))
      [] h = "AZEL" -> Reply(Raise("NotImplementedError"))

\* antenna_cmd, lines 389-398: a sub-command that matches no key falls off the
\* end of the loop and the method returns None
antenna_cmd(rl) ==
    IF Len(rl) > 1
    THEN LET h == Lookup(SubcommandNames, PyUpper(rl[2]))
         IN  IF h = "" THEN Reply(None) ELSE Subcommand(h, rl)
    ELSE Reply(S(Chars["REJECTED"]))

\* a dispatch that answers with the wrong word
NoMatchRejected == Reply(S(Chars["REJECTED"]))

\* line 308: return "ERROR" when no key of self.commands equals the first token
NoMatch == Reply(S(Chars["ERROR"]))

\* process_request, lines 299-308
process_request(request) ==
    LET split == RequestSplit(request)
        first == PyUpper(split[1])
        cmd   == Lookup(CommandNames, first)
    IN  CASE cmd = "" -> NoMatch
          [] cmd = "ANTENNA" -> antenna_cmd(split)
          [] cmd = "PARAM" -> CallOp("get")
          [] cmd = "GET_WEATHER" -> Reply(Completed(
                 <<weather.temperature, weather.pressure, weather.humidity,
                   weather.windspeed, weather.winddirection, I(0),
                   S(<<"0", ":", "0", ":", "0">>)>>))
          [] cmd = "GET_OFFSETS" -> CallOp("get_offsets")
          [] cmd = "GET_AZEL" -> Reply(Completed(
                 <<F(point["AZ"].actual), F(point["EL"].actual), I(0), S(ClockText)>>))
          [] cmd = "GET_HADEC" -> Reply(Completed(<<I(0), I(0), I(0), I(0)>>))
          [] cmd \in {"TERMINATE", "WAITONSOURCE", "ATTEN"}
                -> Reply(S(Chars["COMPLETED"]))
          [] cmd = "ONSOURCE" -> CallOp("onsource")
          [] cmd = "GET_COMMANDS"
                -> Reply(JoinKeys(S(<<",", SP>>), CommandNames))
          [] cmd = "GET_PARAMS"
                -> Reply(JoinKeys(B(<<",", SP>>), ParamNames))

(***************************************************************************)
(* Locals of a running call, and how a call ends.                          *)
(***************************************************************************)
EmptyLoc == [h |-> "", req |-> <<>>, cont |-> "", kind |-> "", a1 |-> None,
             a2 |-> None, axis |-> "", val |-> 0, i |-> 0, acc |-> <<>>,
             jt |-> 0]

\* handle(), lines 597-609: what goes out on the socket for a handler result.
\* bytes are sent as they are, a str is encoded, anything else makes
\* bytes(resp, encoding=...) raise, and every exception is logged and dropped.
SentFor(resp) ==
    IF IsExc(resp) THEN [t |-> "noreply", v |-> resp.v]
    ELSE IF resp.t = "bytes" THEN resp
    ELSE IF resp.t = "str" THEN B(resp.v)
    ELSE [t |-> "noreply", v |-> "TypeError"]

\* the call of context c returns (or raises) res
Done(c, res) ==
    /\ hist' = [hist EXCEPT ![c] = Append(@,
                  IF c \in Conns
                  THEN [via |-> "wire", line |-> accum[c], h |-> "", args |-> <<>>,
                        resp |-> SentFor(res)]
                  ELSE [via |-> "api", line |-> <<>>, h |-> loc[c].h,
                        args |-> loc[c].req, resp |-> res])]
    /\ pc' = [pc EXCEPT ![c] = IF c \in Conns THEN "recv" ELSE "idle"]
    /\ loc' = [loc EXCEPT ![c] = EmptyLoc]

\* the first position and the locals of the multi-step operation op
StartOp(c, op, h, rl) ==
    LET base == [EmptyLoc EXCEPT !.h = h, !.req = rl]
    IN
    /\ pc' = [pc EXCEPT ![c] =
                CASE op = "get" -> "get"
                  [] op = "get_offsets" -> "go_el"
                  [] op = "onsource" -> "os_test"
                  [] op = "antenna_po" -> "so_get"
                  [] op = "set_offset" -> "so_get"
                  [] op = "get_offset" -> "go_one"
                  [] op = "antenna_ro" -> "sr_set"
                  [] op = "clr_ro" -> "sr_set"
                  [] op = "clr_po" -> "cp"
                  [] op = "antenna_radec" -> "th_chk"]
    /\ loc' = [loc EXCEPT ![c] =
                CASE op = "get" -> [base EXCEPT !.i = 2]
                  [] op \in {"get_offsets", "onsource"} -> base
                  [] op = "antenna_po" -> [base EXCEPT !.a1 = rl[3], !.a2 = rl[4]]
                  [] op = "set_offset" ->
                        [base EXCEPT !.a1 = rl[1], !.a2 = rl[2], !.cont = "set_offset"]
                  [] op = "get_offset" -> [base EXCEPT !.a1 = rl[1]]
                  [] op = "antenna_ro" ->
                        [base EXCEPT !.a1 = rl[3], !.a2 = rl[4], !.cont = "ro",
                                     !.kind = "rate"]
                  [] op = "clr_ro" ->
                        [base EXCEPT !.a1 = S(Chars[OffsetAxes[1]]), !.a2 = F(0),
                                     !.cont = "clr", !.kind = "rate", !.i = 1]
                  [] op = "clr_po" -> [base EXCEPT !.i = 1]
                  [] op = "antenna_radec" ->
                        [base EXCEPT !.a1 = rl[3], !.a2 = rl[4], !.cont = "radec",
                                     !.kind = "point"]]
    /\ UNCHANGED hist

(***************************************************************************)
(* The connection handler, NMCRequestHandler.handle.                       *)
(***************************************************************************)
iovars == <<wire, peer_closed, sentlog, data, accum>>
antvars == <<offsets, point, weather, onsource_counter, lock,
             offset_rate_thread, point_antenna_thread, threads>>

\* a client that waits for the reply to its last request sends the next one
\* only when the handler is back at its first recv()
Request(c, line) ==
    /\ wire[c] = <<>>
    /\ pc[c] = "recv"
    /\ ~peer_closed[c]
    /\ Len(sentlog[c]) < MaxSends
    /\ wire' = [wire EXCEPT ![c] = @ \o line]
    /\ sentlog' = [sentlog EXCEPT ![c] = Append(@, line)]
    /\ UNCHANGED <<peer_closed, data, accum, pc, loc, hist, antvars, clientvars>>

\* a client closes its side of the connection
Close(c) ==
    /\ ~peer_closed[c]
    /\ peer_closed' = [peer_closed EXCEPT ![c] = TRUE]
    /\ UNCHANGED <<wire, sentlog, data, accum, pc, loc, hist, antvars,
                   clientvars>>

\* a handler that keeps only the last chunk
AccumulateLast(first, acc, chunk) == chunk

\* accum = data (line 591) for the first chunk, accum += data (line 594) after
Accumulate(first, acc, chunk) == IF first THEN chunk ELSE acc \o chunk

\* self.request.recv(self.recv_val), lines 587 and 593, delivering k bytes
Recv(c, k) ==
    /\ pc[c] \in {"recv", "more"}
    /\ k \in 1..recv_val
    /\ k <= Len(wire[c])
    /\ LET chunk == SubSeq(wire[c], 1, k)
       IN  /\ data' = [data EXCEPT ![c] = chunk]
           /\ accum' = [accum EXCEPT ![c] = Accumulate(pc[c] = "recv", @, chunk)]
           /\ pc' = [pc EXCEPT ![c] = IF IndexOf(chunk, NL) # 0 THEN "process" ELSE "more"]
    /\ wire' = [wire EXCEPT ![c] = SubSeq(@, k + 1, Len(@))]
    /\ UNCHANGED <<peer_closed, sentlog, loc, hist, antvars, clientvars>>

\* recv() on a connection the peer has closed returns b"": the outer loop
\* breaks (line 589-590), the inner loop appends nothing and goes round again
RecvEof(c) ==
    /\ pc[c] \in {"recv", "more"}
    /\ wire[c] = <<>>
    /\ peer_closed[c]
    /\ data' = [data EXCEPT ![c] = <<>>]
    /\ pc' = [pc EXCEPT ![c] = IF pc[c] = "recv" THEN "done" ELSE "more"]
    /\ UNCHANGED <<wire, peer_closed, sentlog, accum, loc, hist, antvars,
                   clientvars>>

\* antenna.process_request(accum), line 599, for a request answered at once
ProcessReply(c) ==
    /\ pc[c] = "process"
    /\ LET r == process_request(B(accum[c]))
       IN  /\ r.kind = "reply"
           /\ Done(c, r.resp)
    /\ UNCHANGED <<iovars, antvars, clientvars>>

\* antenna.process_request(accum) entering a handler that takes several steps
ProcessCall(c) ==
    /\ pc[c] = "process"
    /\ LET r == process_request(B(accum[c]))
       IN  /\ r.kind = "call"
           /\ StartOp(c, r.op, "", RequestSplit(B(accum[c])))
    /\ UNCHANGED <<iovars, antvars, clientvars>>

\* a caller invokes an ANTENNA sub-command handler with a list of str
DirectCall(c, h, rl) ==
    /\ pc[c] = "idle"
    /\ Len(hist[c]) < MaxSends
    /\ LET r == Subcommand(h, rl)
       IN  IF r.kind = "reply"
           THEN /\ hist' = [hist EXCEPT ![c] = Append(@,
                              [via |-> "api", line |-> <<>>, h |-> h, args |-> rl,
                               resp |-> r.resp])]
                /\ UNCHANGED <<pc, loc>>
           ELSE StartOp(c, r.op, h, rl)
    /\ UNCHANGED <<iovars, antvars, clientvars>>

\* a caller invokes a method of the antenna with positional arguments
ApiCall(c, method, args) ==
    /\ pc[c] = "idle"
    /\ Len(hist[c]) < MaxSends
    /\ StartOp(c, method, method, args)
    /\ UNCHANGED <<iovars, antvars, clientvars>>

\* get_offset, lines 431-434: with self.lock: return self.offsets[axis]["offset"]
GetOffset(c) ==
    /\ pc[c] = "go_one"
    /\ lock = 0
    /\ LET ax == AxisKey(OffsetAxes, loc[c].a1)
       IN  Done(c, IF ax = "" THEN Raise("KeyError") ELSE F(offsets[ax].offset))
    /\ UNCHANGED <<iovars, antvars, clientvars>>

(***************************************************************************)
(* PARAM: SimulatedAntenna.get, lines 401-408.                             *)
(***************************************************************************)
GetParam(c) ==
    /\ pc[c] = "get"
    /\ loc[c].i <= Len(loc[c].req)
    /\ LET p == Lookup(ParamNames, loc[c].req[loc[c].i])
       IN  IF p = ""
           THEN /\ loc' = [loc EXCEPT ![c].i = @ + 1]
           ELSE /\ (p \in {"ElevationManualOffset", "ElevationPositionOffset",
                          "ElevationAccumulatedRateOffset",
                          "CrossElevationManualOffset",
                          "CrossElevationPositionOffset",
                          "CrossElevationAccumulatedRateOffset"}) => lock = 0
                /\ loc' = [loc EXCEPT ![c].i = @ + 1,
                                      ![c].acc = Append(@, PyStr(ParamValue(p)))]
    /\ UNCHANGED <<pc, hist, iovars, antvars, clientvars>>

GetReturn(c) ==
    /\ pc[c] = "get"
    /\ loc[c].i > Len(loc[c].req)
    /\ Done(c, S(Join(loc[c].acc, <<",", SP>>)))
    /\ UNCHANGED <<iovars, antvars, clientvars>>

(***************************************************************************)
(* GET_OFFSETS: get_offsets, lines 426-428, two locked reads.              *)
(***************************************************************************)
GetOffsetsEl(c) ==
    /\ pc[c] = "go_el"
    /\ lock = 0
    /\ loc' = [loc EXCEPT ![c].val = offsets["EL"].offset]
    /\ pc' = [pc EXCEPT ![c] = "go_xel"]
    /\ UNCHANGED <<hist, iovars, antvars, clientvars>>

GetOffsetsXel(c) ==
    /\ pc[c] = "go_xel"
    /\ lock = 0
    /\ Done(c, Completed(<<F(loc[c].val), I(0), F(offsets["XEL"].offset), I(0)>>))
    /\ UNCHANGED <<iovars, antvars, clientvars>>

(***************************************************************************)
(* ONSOURCE: onsource, lines 515-522. The counter is read and written      *)
(* without the lock: the test, the load of += and its store are steps.     *)
(***************************************************************************)
OnsourceTest(c) ==
    /\ pc[c] = "os_test"
    /\ pc' = [pc EXCEPT ![c] = IF onsource_counter >= 3 THEN "os_reset" ELSE "os_load"]
    /\ UNCHANGED <<loc, hist, iovars, antvars, clientvars>>

OnsourceReset(c) ==
    /\ pc[c] = "os_reset"
    /\ onsource_counter' = 0
    /\ Done(c, S(Chars["COMPLETED ONSOURCE"]))
    /\ UNCHANGED <<iovars, offsets, point, weather, lock, offset_rate_thread,
                   point_antenna_thread, threads, clientvars>>

OnsourceLoad(c) ==
    /\ pc[c] = "os_load"
    /\ loc' = [loc EXCEPT ![c].val = onsource_counter]
    /\ pc' = [pc EXCEPT ![c] = "os_store"]
    /\ UNCHANGED <<hist, iovars, antvars, clientvars>>

OnsourceStore(c) ==
    /\ pc[c] = "os_store"
    /\ onsource_counter' = loc[c].val + 1
    /\ Done(c, S(Chars["COMPLETED SLEWING"]))
    /\ UNCHANGED <<iovars, offsets, point, weather, lock, offset_rate_thread,
                   point_antenna_thread, threads, clientvars>>

(***************************************************************************)
(* ANTENNA PO: antenna_po and set_offset, lines 342-351 and 467-481.       *)
(***************************************************************************)
\* lines 468-477: float(offset), axis.upper(), and the debug message, which
\* calls get_offset(axis) and so takes the lock and indexes self.offsets
SetOffsetCheck(c) ==
    /\ pc[c] = "so_get"
    /\ LET off == PyFloat(loc[c].a2)
           ax  == AxisKey(OffsetAxes, PyUpper(loc[c].a1))
       IN  IF IsExc(off) THEN Done(c, off)
           ELSE /\ lock = 0
                /\ IF ax = "" THEN Done(c, Raise("KeyError"))
                   ELSE /\ loc' = [loc EXCEPT ![c].axis = ax, ![c].val = off.v]
                        /\ pc' = [pc EXCEPT ![c] = "so_w1"]
                        /\ UNCHANGED hist
    /\ UNCHANGED <<iovars, antvars, clientvars>>

\* a set_offset that never stores the offset
SetOffsetWriteSkipped(c) ==
    /\ pc[c] = "so_w1"
    /\ lock = 0
    /\ lock' = c
    /\ pc' = [pc EXCEPT ![c] = "so_w2"]
    /\ UNCHANGED <<loc, hist, iovars, offsets, point, weather, onsource_counter,
                   offset_rate_thread, point_antenna_thread, threads, clientvars>>

\* lines 479-480: with self.lock: self.offsets[axis]["offset"] = offset
SetOffsetWrite(c) ==
    /\ pc[c] = "so_w1"
    /\ lock = 0
    /\ lock' = c
    /\ offsets' = [offsets EXCEPT ![loc[c].axis].offset = loc[c].val]
    /\ pc' = [pc EXCEPT ![c] = "so_w2"]
    /\ UNCHANGED <<loc, hist, iovars, point, weather, onsource_counter,
                   offset_rate_thread, point_antenna_thread, threads, clientvars>>

\* a set_offset that adds the offset to what the integrator has accumulated
SetOffsetWriteAccumAdding(c) ==
    /\ pc[c] = "so_w2"
    /\ lock' = 0
    /\ offsets' = [offsets EXCEPT ![loc[c].axis].accumulated = @ + loc[c].val]
    /\ Done(c, IF loc[c].cont = "set_offset" THEN None ELSE S(Chars["COMPLETED"]))
    /\ UNCHANGED <<iovars, point, weather, onsource_counter,
                   offset_rate_thread, point_antenna_thread, threads, clientvars>>

\* a set_offset that asks for the lock again for its second store
SetOffsetWriteAccumRelocking(c) ==
    /\ pc[c] = "so_w2"
    /\ lock = 0
    /\ lock' = 0
    /\ offsets' = [offsets EXCEPT ![loc[c].axis].accumulated = loc[c].val]
    /\ Done(c, IF loc[c].cont = "set_offset" THEN None ELSE S(Chars["COMPLETED"]))
    /\ UNCHANGED <<iovars, point, weather, onsource_counter,
                   offset_rate_thread, point_antenna_thread, threads, clientvars>>

\* line 481: self.offsets[axis]["accumulated"] = offset, the lock is released;
\* set_offset returns None, and antenna_po (line 351) answers COMPLETED
SetOffsetWriteAccum(c) ==
    /\ pc[c] = "so_w2"
    /\ lock' = 0
    /\ offsets' = [offsets EXCEPT ![loc[c].axis].accumulated = loc[c].val]
    /\ Done(c, IF loc[c].cont = "set_offset" THEN None ELSE S(Chars["COMPLETED"]))
    /\ UNCHANGED <<iovars, point, weather, onsource_counter,
                   offset_rate_thread, point_antenna_thread, threads, clientvars>>

(***************************************************************************)
(* ANTENNA CLR PO: antenna_clr, lines 367-372: four stores without the     *)
(* lock, offset then accumulated for each key of self.offsets.             *)
(***************************************************************************)
ClearOffsets(c) ==
    /\ pc[c] = "cp"
    /\ LET i  == loc[c].i
           ax == OffsetAxes[(i + 1) \div 2]
       IN  /\ offsets' = IF i % 2 = 1
                         THEN [offsets EXCEPT ![ax].offset = 0]
                         ELSE [offsets EXCEPT ![ax].accumulated = 0]
           /\ IF i = 2 * Len(OffsetAxes)
              THEN Done(c, S(Chars["COMPLETED"]))
              ELSE /\ loc' = [loc EXCEPT ![c].i = i + 1]
                   /\ UNCHANGED <<pc, hist>>
    /\ UNCHANGED <<iovars, point, weather, onsource_counter, lock,
                   offset_rate_thread, point_antenna_thread, threads, clientvars>>

(***************************************************************************)
(* ANTENNA RO / CLR RO: set_rate, lines 450-465.                           *)
(***************************************************************************)
\* a set_rate that keeps the lock after its store, through the stop and the
\* join of the running integrator
SetRateJoiningUnderLock(c) ==
    /\ pc[c] = "sr_set"
    /\ LET ax == AxisKey(OffsetAxes, PyUpper(loc[c].a1))
           r  == PyFloat(loc[c].a2)
       IN  IF ax = "" THEN Done(c, Raise("KeyError")) /\ UNCHANGED <<offsets, lock>>
           ELSE /\ lock = 0
                /\ IF IsExc(r) THEN Done(c, r) /\ UNCHANGED <<offsets, lock>>
                   ELSE /\ offsets' = [offsets EXCEPT ![ax].rate = r.v]
                        /\ lock' = c
                        /\ loc' = [loc EXCEPT ![c].axis = ax]
                        /\ pc' = [pc EXCEPT ![c] = "th_chk"]
                        /\ UNCHANGED hist
    /\ UNCHANGED <<iovars, point, weather, onsource_counter,
                   offset_rate_thread, point_antenna_thread, threads, clientvars>>

\* lines 451-461: axis.upper(); the debug message indexes self.offsets[axis]
\* before the membership test; with self.lock: rate = float(rate)
SetRate(c) ==
    /\ pc[c] = "sr_set"
    /\ LET ax == AxisKey(OffsetAxes, PyUpper(loc[c].a1))
           r  == PyFloat(loc[c].a2)
       IN  IF ax = "" THEN Done(c, Raise("KeyError")) /\ UNCHANGED offsets
           ELSE /\ lock = 0
                /\ IF IsExc(r) THEN Done(c, r) /\ UNCHANGED offsets
                   ELSE /\ offsets' = [offsets EXCEPT ![ax].rate = r.v]
                        /\ loc' = [loc EXCEPT ![c].axis = ax]
                        /\ pc' = [pc EXCEPT ![c] = "th_chk"]
                        /\ UNCHANGED hist
    /\ UNCHANGED <<iovars, point, weather, onsource_counter, lock,
                   offset_rate_thread, point_antenna_thread, threads, clientvars>>

(***************************************************************************)
(* Replacing a worker: set_rate lines 462-465, point_antenna lines         *)
(* 548-554, antenna_clr lines 363-365. Each mention of the attribute       *)
(* (self.offset_rate_thread, self.point_antenna_thread) reads it anew.     *)
(***************************************************************************)
ThreadAttr(kind) ==
    IF kind = "rate" THEN offset_rate_thread ELSE point_antenna_thread

othervars == <<iovars, offsets, point, weather, onsource_counter, lock, clientvars>>

\* if self.<attr> is not None:
ThreadCheck(c) ==
    /\ pc[c] = "th_chk"
    /\ IF ThreadAttr(loc[c].kind) # 0
       THEN pc' = [pc EXCEPT ![c] = "th_stop"] /\ UNCHANGED <<loc, hist>>
       ELSE IF loc[c].cont = "clr_final"
            THEN Done(c, S(Chars["COMPLETED"]))
            ELSE pc' = [pc EXCEPT ![c] = "th_start"] /\ UNCHANGED <<loc, hist>>
    /\ UNCHANGED <<othervars, offset_rate_thread, point_antenna_thread, threads>>

\* self.<attr>._stop_event.set()
ThreadStop(c) ==
    /\ pc[c] = "th_stop"
    /\ threads' = [threads EXCEPT ![ThreadAttr(loc[c].kind)].stop = TRUE]
    /\ pc' = [pc EXCEPT ![c] = "th_joincall"]
    /\ UNCHANGED <<loc, hist, othervars, offset_rate_thread, point_antenna_thread>>

\* self.<attr>.join(): the thread to wait for is the one the attribute names now
ThreadJoinCall(c) ==
    /\ pc[c] = "th_joincall"
    /\ loc' = [loc EXCEPT ![c].jt = ThreadAttr(loc[c].kind)]
    /\ pc' = [pc EXCEPT ![c] = "th_wait"]
    /\ UNCHANGED <<hist, othervars, offset_rate_thread, point_antenna_thread, threads>>

\* a thread object after __init__ (OffsetRateThread lines 30-35, PointThread
\* lines 92-137 with update_rate = 1.0 unless given), not yet started
NewThread(kind, axis, update_rate) ==
    [kind |-> kind, axis |-> axis, update_rate |-> update_rate, stop |-> FALSE,
     running |-> FALSE, tpc |-> "init", rate |-> 0, cur |-> 0, n |-> 0,
     tgt |-> <<0, 0>>]

\* join() returns once that thread's run() has returned
ThreadJoined(c) ==
    /\ pc[c] = "th_wait"
    /\ threads[loc[c].jt].tpc = "dead"
    /\ IF loc[c].cont = "clr_final"
       THEN Done(c, S(Chars["COMPLETED"]))
       ELSE pc' = [pc EXCEPT ![c] = "th_start"] /\ UNCHANGED <<loc, hist>>
    /\ UNCHANGED <<othervars, offset_rate_thread, point_antenna_thread, threads>>

\* _start_thread, lines 565-571: construct the thread (PointThread.__init__
\* converts its coordinates with float(), lines 118-119) and start it
ThreadStart(c) ==
    /\ pc[c] = "th_start"
    /\ Len(threads) < MaxThreads
    /\ IF loc[c].kind = "point" /\ IsExc(PyFloat(loc[c].a1))
       THEN Done(c, PyFloat(loc[c].a1)) /\ UNCHANGED threads
       ELSE IF loc[c].kind = "point" /\ IsExc(PyFloat(loc[c].a2))
       THEN Done(c, PyFloat(loc[c].a2)) /\ UNCHANGED threads
       ELSE /\ threads' = Append(threads, NewThread(loc[c].kind, loc[c].axis, Scale))
            /\ loc' = [loc EXCEPT ![c].jt = Len(threads) + 1]
            /\ pc' = [pc EXCEPT ![c] = "th_assign"]
            /\ UNCHANGED hist
    /\ UNCHANGED <<othervars, offset_rate_thread, point_antenna_thread>>

\* self.<attr> = <the new thread>, and the handler that asked for it returns:
\* antenna_ro answers COMPLETED, antenna_radec returns None (resp = None,
\* line 382), antenna_clr goes on to the next key and then to its own stop+join
ThreadAssign(c) ==
    /\ pc[c] = "th_assign"
    /\ offset_rate_thread' =
          IF loc[c].kind = "rate" THEN loc[c].jt ELSE offset_rate_thread
    /\ point_antenna_thread' =
          IF loc[c].kind = "point" THEN loc[c].jt ELSE point_antenna_thread
    /\ CASE loc[c].cont = "ro" -> Done(c, S(Chars["COMPLETED"]))
         [] loc[c].cont = "radec" -> Done(c, None)
         [] loc[c].cont = "clr" /\ loc[c].i < Len(OffsetAxes) ->
               /\ loc' = [loc EXCEPT ![c].i = @ + 1,
                                     ![c].a1 = S(Chars[OffsetAxes[loc[c].i + 1]])]
               /\ pc' = [pc EXCEPT ![c] = "sr_set"]
               /\ UNCHANGED hist
         [] loc[c].cont = "clr" /\ loc[c].i >= Len(OffsetAxes) ->
               /\ loc' = [loc EXCEPT ![c].cont = "clr_final"]
               /\ pc' = [pc EXCEPT ![c] = "th_chk"]
               /\ UNCHANGED hist
    /\ UNCHANGED <<othervars, threads>>

(***************************************************************************)
(* OffsetRateThread.run, lines 37-51.                                      *)
(***************************************************************************)
tvars == <<pc, loc, hist, iovars, clientvars>>

\* lines 38-39: rate = self.parent.get_offset_rate(self.axis)
RateInit(t) ==
    /\ t <= Len(threads)
    /\ threads[t].kind = "rate" /\ threads[t].tpc = "init"
    /\ lock = 0
    /\ threads' = [threads EXCEPT ![t].running = TRUE,
                                  ![t].rate = offsets[threads[t].axis].rate,
                                  ![t].tpc = "loop"]
    /\ UNCHANGED <<tvars, offsets, point, weather, onsource_counter, lock,
                   offset_rate_thread, point_antenna_thread>>

\* lines 40-43: the loop test and the stop test, which breaks out of the loop
RateLoop(t) ==
    /\ t <= Len(threads)
    /\ threads[t].kind = "rate" /\ threads[t].tpc = "loop"
    /\ IF threads[t].stop
       THEN threads' = [threads EXCEPT ![t].running = FALSE, ![t].tpc = "dead"]
       ELSE /\ threads[t].n < MaxTicks
            /\ threads' = [threads EXCEPT ![t].tpc = "read"]
    /\ UNCHANGED <<tvars, offsets, point, weather, onsource_counter, lock,
                   offset_rate_thread, point_antenna_thread>>

\* line 44: current_accumulated_offset = self.parent.get_accum_offset(self.axis)
RateRead(t) ==
    /\ t <= Len(threads)
    /\ threads[t].kind = "rate" /\ threads[t].tpc = "read"
    /\ lock = 0
    /\ threads' = [threads EXCEPT ![t].cur = offsets[threads[t].axis].accumulated,
                                  ![t].tpc = "write"]
    /\ UNCHANGED <<tvars, offsets, point, weather, onsource_counter, lock,
                   offset_rate_thread, point_antenna_thread>>

\* lines 48-50: += rate, set_accum_offset (a locked store), sleep
RateWrite(t) ==
    /\ t <= Len(threads)
    /\ threads[t].kind = "rate" /\ threads[t].tpc = "write"
    /\ lock = 0
    /\ offsets' = [offsets EXCEPT ![threads[t].axis].accumulated =
                                      threads[t].cur + threads[t].rate]
    /\ threads' = [threads EXCEPT ![t].n = @ + 1, ![t].tpc = "loop"]
    /\ UNCHANGED <<tvars, point, weather, onsource_counter, lock,
                   offset_rate_thread, point_antenna_thread>>

(***************************************************************************)
(* PointThread.run, lines 139-174.                                         *)
(***************************************************************************)
Abs(x) == IF x < 0 THEN 0 - x ELSE x

\* a tracker that stops moving within one step of the target
SlewStoppingShort(p) ==
    LET diff == p.predicted - p.actual
    IN  IF Abs(diff) > slew_rate
        THEN [p EXCEPT !.actual = @ + (IF diff < 0 THEN 0 - 1 ELSE 1) * slew_rate]
        ELSE p

\* a step that is always a full slew_rate, however close the axis is
SlewAlwaysFullStep(p) ==
    LET diff == p.predicted - p.actual
    IN  [p EXCEPT !.actual = @ + (IF diff < 0 THEN 0 - 1 ELSE 1) * slew_rate]

\* lines 160-166: slew_amount = slew_rate * update_rate is computed and not
\* used; the comparison and the step use slew_rate itself
Slew(p) ==
    LET diff == p.predicted - p.actual
    IN  IF Abs(diff) > slew_rate
        THEN [p EXCEPT !.actual = @ + (IF diff < 0 THEN 0 - 1 ELSE 1) * slew_rate]
        ELSE [p EXCEPT !.actual = p.predicted]

\* PointThread(parent, coord, update_rate=u).start(), as _start_thread does
\* with the keyword arguments it is given (lines 565-571)
StartTracker(u) ==
    /\ threads = <<>>
    /\ threads' = <<NewThread("point", "", u)>>
    /\ point_antenna_thread' = 1
    /\ UNCHANGED <<tvars, offsets, point, weather, onsource_counter, lock,
                   offset_rate_thread>>

PointInit(t) ==
    /\ t <= Len(threads)
    /\ threads[t].kind = "point" /\ threads[t].tpc = "init"
    /\ threads' = [threads EXCEPT ![t].running = TRUE, ![t].tpc = "loop"]
    /\ UNCHANGED <<tvars, offsets, point, weather, onsource_counter, lock,
                   offset_rate_thread, point_antenna_thread>>

\* lines 148-151: the loop test; a stop request clears the running flag but
\* does not leave the loop, so the tick below still runs
PointLoop(t) ==
    /\ t <= Len(threads)
    /\ threads[t].kind = "point" /\ threads[t].tpc = "loop"
    /\ IF ~threads[t].running
       THEN threads' = [threads EXCEPT ![t].tpc = "dead"]
       ELSE threads' = [threads EXCEPT ![t].tpc = "calc",
                                       ![t].running = ~threads[t].stop]
    /\ UNCHANGED <<tvars, offsets, point, weather, onsource_counter, lock,
                   offset_rate_thread, point_antenna_thread>>

\* lines 153-157: the commanded position, the locked read of self.parent.point
\* (current_point is that same dict), and the store of AZ predicted
PointCalc(t, tgt) ==
    /\ t <= Len(threads)
    /\ threads[t].kind = "point" /\ threads[t].tpc = "calc"
    /\ lock = 0
    /\ point' = [point EXCEPT !["AZ"].predicted = tgt[1]]
    /\ threads' = [threads EXCEPT ![t].tgt = tgt, ![t].tpc = "pred_el"]
    /\ UNCHANGED <<tvars, offsets, weather, onsource_counter, lock,
                   offset_rate_thread, point_antenna_thread>>

\* line 158
PointPredictEl(t) ==
    /\ t <= Len(threads)
    /\ threads[t].kind = "point" /\ threads[t].tpc = "pred_el"
    /\ point' = [point EXCEPT !["EL"].predicted = threads[t].tgt[2]]
    /\ threads' = [threads EXCEPT ![t].tpc = "mv_az"]
    /\ UNCHANGED <<tvars, offsets, weather, onsource_counter, lock,
                   offset_rate_thread, point_antenna_thread>>

\* lines 161-166, one axis per step
PointMove(t) ==
    /\ t <= Len(threads)
    /\ threads[t].kind = "point" /\ threads[t].tpc \in {"mv_az", "mv_el"}
    /\ LET ax == IF threads[t].tpc = "mv_az" THEN "AZ" ELSE "EL"
       IN  point' = [point EXCEPT ![ax] = Slew(@)]
    /\ threads' = [threads EXCEPT ![t].tpc =
                      IF threads[t].tpc = "mv_az" THEN "mv_el" ELSE "store"]
    /\ UNCHANGED <<tvars, offsets, weather, onsource_counter, lock,
                   offset_rate_thread, point_antenna_thread>>

\* lines 171-174: with self.parent.lock: self.parent.point = current_point
PointStore(t) ==
    /\ t <= Len(threads)
    /\ threads[t].kind = "point" /\ threads[t].tpc = "store"
    /\ lock = 0
    /\ threads' = [threads EXCEPT ![t].tpc = "loop"]
    /\ UNCHANGED <<tvars, offsets, point, weather, onsource_counter, lock,
                   offset_rate_thread, point_antenna_thread>>

(***************************************************************************)
(* WeatherThread, lines 54-87, and start_weather_thread, lines 557-563.    *)
(***************************************************************************)
\* start_weather_thread while self.weather_thread is None: the thread is
\* constructed with update_rate = 300 and started
StartWeather ==
    /\ \A t \in 1..Len(threads) : threads[t].kind # "weather"
    /\ Len(threads) < MaxThreads
    /\ threads' = Append(threads, NewThread("weather", "", 300 * Scale))
    /\ UNCHANGED <<tvars, offsets, point, weather, onsource_counter, lock,
                   offset_rate_thread, point_antenna_thread>>

\* lines 67-70: set the running flag, then the loop test; a stop request
\* clears the flag and the body below still runs
WeatherLoop(t) ==
    /\ t <= Len(threads)
    /\ threads[t].kind = "weather" /\ threads[t].tpc \in {"init", "loop"}
    /\ IF threads[t].tpc = "init"
       THEN threads' = [threads EXCEPT ![t].running = TRUE, ![t].tpc = "loop"]
       ELSE IF ~threads[t].running
       THEN threads' = [threads EXCEPT ![t].tpc = "dead"]
       ELSE /\ threads[t].n < MaxTicks
            /\ threads' = [threads EXCEPT ![t].tpc = "fetch",
                                          ![t].running = ~threads[t].stop]
    /\ UNCHANGED <<tvars, offsets, point, weather, onsource_counter, lock,
                   offset_rate_thread, point_antenna_thread>>

\* the attributes in the order lines 76-80 assign them
WeatherFields == <<"temperature", "pressure", "humidity", "windspeed", "winddirection">>

\* line 73: get_current_weather(lat, lon).json(), which raises (ok = FALSE,
\* and the except clause of lines 82-85 ends the tick) or returns a reply in
\* which the fields named by has are present, each with the value v
WeatherFetch(t, reply) ==
    /\ t <= Len(threads)
    /\ threads[t].kind = "weather" /\ threads[t].tpc = "fetch"
    /\ threads' = [threads EXCEPT ![t].tgt = reply,
                                  ![t].n = IF reply.ok THEN @ ELSE @ + 1,
                                  ![t].tpc = IF reply.ok THEN "store" ELSE "loop"]
    /\ UNCHANGED <<tvars, offsets, point, weather, onsource_counter, lock,
                   offset_rate_thread, point_antenna_thread>>

\* lines 75-85: with self.parent.lock, the five assignments in turn; the
\* first field the reply lacks raises KeyError, which releases the lock and
\* is logged, and the assignments made before it stay
WeatherStore(t) ==
    /\ t <= Len(threads)
    /\ threads[t].kind = "weather" /\ threads[t].tpc = "store"
    /\ lock = 0
    /\ LET reply == threads[t].tgt
           done  == {i \in 1..Len(WeatherFields) :
                       \A j \in 1..i : WeatherFields[j] \in reply.has}
       IN  weather' = [f \in DOMAIN weather |->
                         IF \E i \in done : WeatherFields[i] = f
                         THEN reply.v ELSE weather[f]]
    /\ threads' = [threads EXCEPT ![t].n = @ + 1, ![t].tpc = "loop"]
    /\ UNCHANGED <<tvars, offsets, point, onsource_counter, lock,
                   offset_rate_thread, point_antenna_thread>>
(***************************************************************************)
(* The simulator after construction (SimulatedAntenna.__init__, lines      *)
(* 179-278) with the server listening and no request received yet.         *)
(***************************************************************************)
SimInit ==
    /\ wire = [c \in Conns |-> <<>>]
    /\ peer_closed = [c \in Conns |-> FALSE]
    /\ sentlog = [c \in Conns |-> <<>>]
    /\ data = [c \in Conns |-> <<>>]
    /\ accum = [c \in Conns |-> <<>>]
    /\ pc = [c \in Ctx |-> IF c \in Conns THEN "recv" ELSE "idle"]
    /\ loc = [c \in Ctx |-> EmptyLoc]
    /\ hist = [c \in Ctx |-> <<>>]
    /\ offsets = [a \in {"EL", "XEL"} |->
                    [accumulated |-> 0, offset |-> 0, rate |-> Scale]]
    /\ point = ("AZ" :> [actual |-> AzStart, predicted |-> AzStart])
            @@ ("EL" :> [actual |-> ElStart, predicted |-> ElStart])
    /\ weather = [temperature |-> I(0), pressure |-> I(0), humidity |-> I(0),
                  windspeed |-> I(0), winddirection |-> I(0)]
    /\ onsource_counter = 0
    /\ lock = 0
    /\ offset_rate_thread = 0
    /\ point_antenna_thread = 0
    /\ threads = <<>>

\* a request line: the tokens separated by single spaces, then the newline
Line(toks) == Join([i \in 1..Len(toks) |-> Chars[toks[i]]], <<SP>>) \o <<NL>>
\* a request list of str, as a direct caller passes it
StrList(toks) == [i \in 1..Len(toks) |-> S(Chars[toks[i]])]

\* sub-command handler calls of the caller of the rate-integrator specification
RateCalls ==
    {<<"RO", StrList(<<"ANTENNA", "RO", "EL", "1.0">>)>>,
     <<"RO", StrList(<<"ANTENNA", "RO", "xel", "2.5">>)>>,
     <<"PO", StrList(<<"ANTENNA", "PO", "EL", "5.0">>)>>,
     <<"CLR", StrList(<<"ANTENNA", "CLR", "PO">>)>>,
     <<"CLR", StrList(<<"ANTENNA", "CLR", "RO">>)>>,
     <<"RO", StrList(<<"ANTENNA", "RO", "EL">>)>>,
     <<"RO", StrList(<<"ANTENNA", "RO", "EL", "1.0", "5.0">>)>>,
     <<"PO", StrList(<<"ANTENNA", "PO">>)>>,
     <<"PO", StrList(<<"ANTENNA", "PO", "EL", "5.0", "1.0">>)>>}

ThreadSteps(c) ==
    \/ ThreadCheck(c)
    \/ ThreadStop(c)
    \/ ThreadJoinCall(c)
    \/ ThreadJoined(c)
    \/ ThreadStart(c)
    \/ ThreadAssign(c)

(***************************************************************************)
(* The client: NMCServer of nmc_server.py. Each method is an operator from *)
(* the object's fields (and what the server at the other end of the socket *)
(* has received) to the new fields and the value returned or the exception *)
(* raised.                                                                 *)
(***************************************************************************)
D(v) == [t |-> "dict", v |-> v]
Bool(b) == [t |-> "bool", v |-> b]
L(v) == [t |-> "list", v |-> v]

\* ws_nm, lines 175-198: the workstation numbers known at each site
ws_nm ==
    [CDSCC |-> {0, 1, 2, 3, 4, 5, 6, 7, 8, 9, 91, 92},
     GDSCC |-> {0, 1, 2, 3, 4, 5, 6, 7, 11, 12, 93, 94}]

\* the tolerances of self.status["angle"], lines 252-255, in 1/Scale degree
az_tol == 85
el_tol == 85
az_pred_tol == 110
el_pred_tol == 110

\* the fields set by __init__ before it connects, lines 218-225, and the
\* status dictionary of lines 246-265 (a dict is its items in insertion order)
NewClient ==
    [sock |-> "none", simulated |-> FALSE, wsn |-> 0, site |-> "GDSCC",
     dss |-> S(Chars["14"]), server_initialized |-> FALSE, sim_command |-> None,
     status |-> D(<<
        <<S(Chars["antenna_status"]), None>>,
        <<S(Chars["point_status"]), None>>,
        <<S(Chars["angle"]),
          D(<<<<S(Chars["az"]), None>>, <<S(Chars["el"]), None>>,
              <<S(Chars["az_tol"]), F(az_tol)>>, <<S(Chars["el_tol"]), F(el_tol)>>,
              <<S(Chars["az_pred_tol"]), F(az_pred_tol)>>,
              <<S(Chars["el_pred_tol"]), F(el_pred_tol)>>>>)>>,
        <<S(Chars["offset"]), D(<<<<S(Chars["az"]), None>>, <<S(Chars["xel"]), None>>>>)>>,
        <<S(Chars["offset_rate"]),
          D(<<<<S(Chars["az"]), None>>, <<S(Chars["xel"]), None>>>>)>>>>)]

\* a client whose simulate() leaves the socket and the flag as they are
simulate_nothing(cl) ==
    [cl |-> cl, ret |-> D([success |-> TRUE, wsn |-> 0])]

\* a simulate() that keeps the stored workstation, site and dss
simulate_keeping_station(cl) ==
    [cl |-> [cl EXCEPT !.simulated = TRUE, !.sock = "none"],
     ret |-> D([success |-> TRUE, wsn |-> 0])]

\* simulate, lines 386-404; FakeAntenna() has wsn 0, site "CDSCC", dss 43
simulate(cl) ==
    [cl |-> [cl EXCEPT !.wsn = 0, !.simulated = TRUE, !.site = "CDSCC",
                       !.dss = I(43), !.sock = "none"],
     ret |-> D([success |-> TRUE, wsn |-> 0])]

\* connect_to_hardware, lines 326-384; outcome is what sock.connect() does
connect_to_hardware(cl, wsn, site, outcome) ==
    LET PyInt(o) ==
            IF o.t = "int" THEN o
            ELSE IF IsText(o) /\ Len(Strip(o.v)) > 0 /\ AllDigits(Strip(o.v))
                 THEN I(NatOf(Strip(o.v)))
            ELSE IF IsText(o) THEN Raise("ValueError")
            ELSE Raise("TypeError")
        w     == PyInt(wsn)
        known == ~IsExc(w) /\ site \in DOMAIN ws_nm /\ w.v \in ws_nm[site]
        c1    == [cl EXCEPT !.site = site,
                            !.wsn = IF known THEN w.v ELSE 0,
                            !.sock = "open"]
    IN  CASE outcome = "connected" ->
               [cl |-> [c1 EXCEPT !.simulated = FALSE],
                ret |-> D([success |-> TRUE, wsn |-> c1.wsn])]
          [] outcome = "timeout" ->
               [cl |-> simulate(c1).cl, ret |-> D([success |-> FALSE, wsn |-> 0])]
          [] outcome = "refused" ->
               [cl |-> simulate(c1).cl,
                ret |-> D([success |-> FALSE, wsn |-> 0, errno |-> "ECONNREFUSED"])]

\* a close_socket that also forgets the socket object
close_socket_forgetting(cl) ==
    IF ~cl.simulated /\ cl.sock = "open" THEN [cl EXCEPT !.sock = "none"] ELSE cl

\* close_socket, lines 1032-1042: the socket object is closed and kept
close_socket(cl) ==
    IF ~cl.simulated /\ cl.sock = "open" THEN [cl EXCEPT !.sock = "closed"] ELSE cl

\* reconnect_to_hardware, lines 320-324, with the stored workstation and site
reconnect_to_hardware(cl, outcome) ==
    connect_to_hardware(IF cl.sock # "none" THEN close_socket(cl) ELSE cl,
                        I(cl.wsn), cl.site, outcome)

\* the exception self.sock.sendall(o) raises, "" when the bytes go out:
\* None has no sendall, a socket takes bytes only, a closed socket has no
\* descriptor
SendallError(sock, o) ==
    IF sock = "none" THEN "AttributeError"
    ELSE IF o.t # "bytes" THEN "TypeError"
    ELSE IF sock = "closed" THEN "OSError"
    ELSE ""

\* command, lines 413-439; reply is what the server answers (bytes)
command(cl, pr, command_str, reply) ==
    IF ~cl.simulated
    THEN IF SendallError(cl.sock, command_str) # ""
         THEN [cl |-> cl, peer |-> pr,
               ret |-> Raise(SendallError(cl.sock, command_str))]
         ELSE [cl |-> cl, peer |-> Append(pr, command_str.v), ret |-> reply]
    ELSE [cl |-> [cl EXCEPT !.sim_command = command_str], peer |-> pr,
          ret |-> S(Chars["COMPLETED"])]

\* "{:.<places>f}".format(o): a number with that many decimals (the values
\* here have at most three, so the rest are zeros); a str has no f format
FormatFixed(o, places) ==
    IF o.t \notin {"float", "int"}
    THEN Raise(IF o.t = "None" THEN "TypeError" ELSE "ValueError")
    ELSE LET x   == IF o.t = "int" THEN o.v * Scale ELSE o.v
             mag == IF x < 0 THEN 0 - x ELSE x
         IN  S((IF x < 0 THEN <<"-">> ELSE <<>>) \o NatStr(mag \div Scale) \o <<".">>
               \o [i \in 1..places |->
                     IF i = 1 THEN DigitChar[((mag % Scale) \div 100) + 1]
                     ELSE IF i = 2 THEN DigitChar[((mag \div 10) % 10) + 1]
                     ELSE IF i = 3 THEN DigitChar[(mag % 10) + 1]
                     ELSE "0"])

\* set_offset_one_axis, lines 592-611
set_offset_one_axis(cl, pr, axis, value, reply) ==
    IF cl.simulated
    THEN [cl |-> cl, peer |-> pr, ret |-> D([success |-> S(Chars["COMPLETED"])])]
    ELSE IF IsExc(FormatFixed(value, 4))
    THEN [cl |-> cl, peer |-> pr, ret |-> FormatFixed(value, 4)]
    ELSE LET r == command(cl, pr,
                          S(Chars["ANTENNA PO"] \o <<SP>> \o PyStr(axis) \o <<SP>>
                            \o FormatFixed(value, 4).v \o <<NL>>), reply)
         IN  [r EXCEPT !.ret = IF IsExc(@) THEN @ ELSE D([success |-> @])]

\* set_offset, lines 557-590: for each axis in turn the command and the reply
\* of set_offset_one_axis (the loop body, lines 581-585, is the same code),
\* the replies collected under the axis names
set_offset(cl, pr, axis1, axis2, value1, value2, reply) ==
    IF cl.simulated
    THEN [cl |-> cl, peer |-> pr,
          ret |-> D([success |-> D(<<<<axis1, S(Chars["COMPLETED"])>>,
                                     <<axis2, S(Chars["COMPLETED"])>>>>)])]
    ELSE LET r1 == set_offset_one_axis(cl, pr, axis1, value1, reply)
         IN  IF IsExc(r1.ret) THEN r1
             ELSE LET r2 == set_offset_one_axis(r1.cl, r1.peer, axis2, value2, reply)
                  IN  IF IsExc(r2.ret) THEN r2
                      ELSE [r2 EXCEPT !.ret =
                               D([success |-> D(<<<<axis1, r1.ret.v.success>>,
                                                  <<axis2, r2.ret.v.success>>>>)])]

\* move, lines 762-782
move(cl, pr, position, axis, reply) ==
    IF cl.simulated
    THEN [cl |-> cl, peer |-> pr, ret |-> D([success |-> S(Chars["COMPLETED"])])]
    ELSE LET r == command(cl, pr,
                          S(Chars["ANTENNA MOVE"] \o <<SP>> \o PyStr(axis) \o <<SP>>
                            \o PyStr(position) \o <<NL>>), reply)
         IN  [r EXCEPT !.ret = IF IsExc(@) THEN @
                               ELSE D([success |-> [@ EXCEPT !.v = Strip(@)]])]

\* set_rate, lines 834-869: the axis is checked only when not simulated
set_rate(cl, pr, axis, rate, reply) ==
    IF cl.simulated
    THEN [cl |-> cl, peer |-> pr, ret |-> D([success |-> S(Chars["COMPLETED"])])]
    ELSE IF Upper(axis.v) \notin {Chars["AZ"], Chars["EL"], Chars["XEL"],
                                  Chars["HA"], Chars["DEC"], Chars["XDEC"]}
    THEN [cl |-> cl, peer |-> pr, ret |-> Raise("RuntimeError")]
    ELSE IF IsExc(FormatFixed(rate, 4))
    THEN [cl |-> cl, peer |-> pr, ret |-> FormatFixed(rate, 4)]
    ELSE LET r == command(cl, pr,
                          S(Chars["ANTENNA RO"] \o <<SP>> \o Upper(axis.v) \o <<SP>>
                            \o FormatFixed(rate, 4).v \o <<NL>>), reply)
         IN  [r EXCEPT !.ret = IF IsExc(@) THEN @
                               ELSE D([success |-> [@ EXCEPT !.v = Strip(@)]])]

\* point_radec without its epoch test
point_radecAnyEpoch(cl, pr, ra, dec, epoch, precessed, reply) ==
    IF ~IsText(epoch) THEN [cl |-> cl, peer |-> pr, ret |-> Raise("AttributeError")]
    ELSE LET sent == IF Lower(epoch.v) = Chars["now"] THEN <<ra, dec>> ELSE precessed
             r    == command(cl, pr,
                             S(Chars["ANTENNA RADEC"] \o <<SP>> \o FormatFixed(sent[1], 6).v
                               \o <<SP>> \o FormatFixed(sent[2], 6).v \o <<NL>>), reply)
         IN  [r EXCEPT !.ret = IF IsExc(@) THEN @ ELSE None]

\* point_radec, lines 902-943: the epoch test; for "now" the coordinates are
\* sent as given, otherwise as ephem precesses them (precessed, which the
\* caller of this operator chooses); the command goes through command() in
\* both modes and the method returns nothing
point_radec(cl, pr, ra, dec, epoch, precessed, reply) ==
    IF ~IsText(epoch) THEN [cl |-> cl, peer |-> pr, ret |-> Raise("AttributeError")]
    ELSE IF Lower(epoch.v) \notin {Chars["j2000"], Chars["now"]}
    THEN [cl |-> cl, peer |-> pr, ret |-> Raise("RuntimeError")]
    ELSE LET sent == IF Lower(epoch.v) = Chars["now"] THEN <<ra, dec>> ELSE precessed
             r    == command(cl, pr,
                             S(Chars["ANTENNA RADEC"] \o <<SP>> \o FormatFixed(sent[1], 6).v
                               \o <<SP>> \o FormatFixed(sent[2], 6).v \o <<NL>>), reply)
         IN  [r EXCEPT !.ret = IF IsExc(@) THEN @ ELSE None]

\* first index at which sep occurs in s, 0 when it does not
FindSeq(s, sep) ==
    LET at == {i \in 1..(Len(s) - Len(sep) + 1) : SubSeq(s, i, i + Len(sep) - 1) = sep}
    IN  IF at = {} THEN 0 ELSE CHOOSE i \in at : \A j \in at : i <= j

RECURSIVE SplitSeq(_, _)
SplitSeq(s, sep) ==
    LET i == FindSeq(s, sep)
    IN  IF i = 0 THEN <<s>>
        ELSE <<SubSeq(s, 1, i - 1)>> \o SplitSeq(SubSeq(s, i + Len(sep), Len(s)), sep)

\* o.split(sep): a bytes object cannot be split on a str, nor a str on bytes
PySplit(o, sep) ==
    IF ~IsText(o) THEN Raise("AttributeError")
    ELSE IF o.t # sep.t THEN Raise("TypeError")
    ELSE L([i \in 1..Len(SplitSeq(o.v, sep.v)) |->
                [t |-> o.t, v |-> SplitSeq(o.v, sep.v)[i]]])

\* get_params, lines 448-451
get_params(cl, pr, reply) ==
    LET r == command([cl EXCEPT !.server_initialized = TRUE], pr,
                     S(Chars["GET_PARAMS"] \o <<NL>>), reply)
    IN  IF IsExc(r.ret) THEN r
        ELSE [r EXCEPT !.ret = PySplit(r.ret, S(<<",", SP>>))]

\* {params[i]: None ...}, line 461
NoneDict(params) == D([i \in 1..Len(params) |-> <<params[i], None>>])

\* get, lines 469-475: the reply split on "," and matched against the names
get_fields(r, resp_list, params) ==
    IF IsExc(resp_list) THEN [r EXCEPT !.ret = resp_list]
    ELSE IF Len(resp_list.v) = Len(params)
    THEN [r EXCEPT !.ret = D([i \in 1..Len(params) |->
                                 <<params[i], [t |-> resp_list.v[i].t,
                                               v |-> Strip(resp_list.v[i].v)]>>])]
    ELSE [r EXCEPT !.ret = NoneDict(params)]

\* get, lines 467-469: r is what self.command(cmd) did
get_reply(r, params) ==
    IF IsExc(r.ret) THEN r
    ELSE get_fields(r, PySplit(r.ret, S(<<",">>)), params)

\* get, lines 460-478: r0 is what the call of get_params, if any, did
get_request(r0, params, reply) ==
    IF IsExc(r0.ret) THEN r0
    ELSE IF r0.cl.simulated
    THEN [r0 EXCEPT !.ret = D(<< <<S(Chars["AzimuthAngle"]), I(60)>>,
                                 <<S(Chars["ElevationAngle"]), I(45)>> >>)]
    ELSE IF r0.cl.sock = "none" THEN [r0 EXCEPT !.ret = NoneDict(params)]
    ELSE get_reply(command(r0.cl, r0.peer,
                           S(Chars["PARAM"] \o <<SP>>
                             \o Join([i \in 1..Len(params) |-> params[i].v], <<SP>>)
                             \o <<NL>>),
                           reply), params)

\* get, lines 454-478; reply0 answers GET_PARAMS and reply answers PARAM
get(cl, pr, params, reply0, reply) ==
    get_request(IF ~cl.server_initialized THEN get_params(cl, pr, reply0)
                ELSE [cl |-> cl, peer |-> pr, ret |-> None],
                params, reply)

\* d[key] for a dict given as its items in insertion order
DictGet(d, key) ==
    IF \E i \in 1..Len(d.v) : PyEq(d.v[i][1], key)
    THEN d.v[CHOOSE i \in 1..Len(d.v) : PyEq(d.v[i][1], key)][2]
    ELSE Raise("KeyError")

\* d[key] = val: the value of an existing key is replaced in place, a new key
\* goes to the end
DictSet(d, key, val) ==
    IF \E i \in 1..Len(d.v) : PyEq(d.v[i][1], key)
    THEN [d EXCEPT !.v = [i \in 1..Len(d.v) |->
                             IF PyEq(d.v[i][1], key) THEN <<key, val>> ELSE d.v[i]]]
    ELSE [d EXCEPT !.v = Append(@, <<key, val>>)]

\* get_status(*args), lines 271-285: no key gives the whole dictionary; the
\* first key is looked up in self.status, and so is every further key (the loop
\* body is sub = self.status[arg]); the last lookup is returned
get_status(cl, pr, args) ==
    IF args = <<>> THEN [cl |-> cl, peer |-> pr, ret |-> cl.status]
    ELSE IF \E i \in 1..Len(args) : IsExc(DictGet(cl.status, args[i]))
    THEN [cl |-> cl, peer |-> pr, ret |-> Raise("KeyError")]
    ELSE [cl |-> cl, peer |-> pr, ret |-> DictGet(cl.status, args[Len(args)])]

\* _update_status(*args), lines 287-299: sub = self.status[args[0]], then for
\* each of args[1:-2] sub = self.status[arg], then sub[args[-2]] = args[-1];
\* sub is the object inside self.status, so the store changes self.status
_update_status(cl, pr, args) ==
    LET n      == Len(args)
        looked == <<args[1]>> \o SubSeq(args, 2, n - 2)
        subkey == looked[Len(looked)]
        sub    == DictGet(cl.status, subkey)
    IN  IF n = 0 THEN [cl |-> cl, peer |-> pr, ret |-> None]
        ELSE IF \E i \in 1..Len(looked) : IsExc(DictGet(cl.status, looked[i]))
        THEN [cl |-> cl, peer |-> pr, ret |-> Raise("KeyError")]
        ELSE IF n = 1 THEN [cl |-> cl, peer |-> pr, ret |-> Raise("IndexError")]
        ELSE IF sub.t # "dict" THEN [cl |-> cl, peer |-> pr, ret |-> Raise("TypeError")]
        ELSE [cl |-> [cl EXCEPT !.status =
                         DictSet(@, subkey, DictSet(sub, args[n - 1], args[n]))],
              peer |-> pr, ret |-> None]

\* sub in s
Contains(s, sub) == FindSeq(s, sub) # 0

\* a classification that compares the text as it came
determine_antenna_status_cased(o) ==
    IF o.t # "str" THEN Raise(IF o.t = "bytes" THEN "TypeError" ELSE "AttributeError")
    ELSE IF Contains(o.v, Chars["operational"]) \/ Contains(o.v, Chars["marginal"])
    THEN Bool(TRUE)
    ELSE IF Contains(o.v, Chars["critical"]) THEN Bool(FALSE)
    ELSE Bool(TRUE)

\* onsource.determine_antenna_status, lines 624-632
determine_antenna_status(o) ==
    IF o.t # "str" THEN Raise(IF o.t = "bytes" THEN "TypeError" ELSE "AttributeError")
    ELSE IF Contains(Lower(o.v), Chars["operational"])
            \/ Contains(Lower(o.v), Chars["marginal"])
    THEN Bool(TRUE)
    ELSE IF Contains(Lower(o.v), Chars["critical"]) THEN Bool(FALSE)
    ELSE Bool(TRUE)

\* onsource.xel, lines 634-635: az * cos(deg2rad(el)), the cosine in 1/100000
\* for the elevations the samples use
xel(el, az) ==
    LET cos == (0 :> 100000) @@ (200 :> 99999) @@ (45000 :> 70711)
            @@ (60000 :> 50000) @@ (60100 :> 49849) @@ (60200 :> 49697)
    IN  (az * cos[el]) \div 100000

param_names ==
    <<"AzimuthTrackingError", "AzimuthAngle", "AzimuthPredictedAngle",
      "ElevationTrackingError", "ElevationAngle", "ElevationPredictedAngle",
      "Status">>

\* float(params[name])
Sample(params, name) == PyFloat(DictGet(params, S(Chars[name])))

\* onsource, lines 644-716, from the two samples get() returned: the flag,
\* and the point status or the exception raised
onsource_evaluate(params_before, params_after) ==
    LET flag        == determine_antenna_status(DictGet(params_before, S(Chars["Status"])))
        el_prev     == Sample(params_before, "ElevationAngle")
        el_cur      == Sample(params_after, "ElevationAngle")
        el_err_cur  == Sample(params_after, "ElevationTrackingError")
        el_pred_cur == Sample(params_after, "ElevationPredictedAngle")
        az_prev     == Sample(params_before, "AzimuthAngle")
        az_cur      == Sample(params_after, "AzimuthAngle")
        az_err_cur  == Sample(params_after, "AzimuthTrackingError")
        az_pred_cur == Sample(params_after, "AzimuthPredictedAngle")
        floats      == <<el_prev, el_cur, el_err_cur, el_pred_cur,
                         az_prev, az_cur, az_err_cur, az_pred_cur>>
        xel_prev     == xel(el_prev.v, az_prev.v)
        xel_cur      == xel(el_cur.v, az_cur.v)
        xel_err_cur  == xel(el_err_cur.v, az_err_cur.v)
        xel_pred_cur == xel(el_cur.v, az_pred_cur.v)
        xel_tol      == az_tol
        xel_pred_tol == az_pred_tol
    IN  IF IsExc(flag) THEN [flag |-> flag, ret |-> flag]
        ELSE IF \E i \in 1..Len(floats) : IsExc(floats[i])
        THEN [flag |-> flag,
              ret |-> floats[CHOOSE i \in 1..Len(floats) :
                                IsExc(floats[i]) /\ \A j \in 1..(i-1) : ~IsExc(floats[j])]]
        ELSE IF /\ Abs(xel_err_cur) < xel_tol
                /\ Abs(el_err_cur.v) < el_tol
                /\ Abs(xel_cur - xel_prev) < xel_tol
                /\ Abs(el_cur.v - el_prev.v) < el_tol
                /\ Abs(xel_pred_cur - xel_cur) < xel_pred_tol
                /\ Abs(el_pred_cur.v - el_cur.v) < el_pred_tol
        THEN [flag |-> flag, ret |-> S(Chars["ONSOURCE"])]
        ELSE IF flag.v THEN [flag |-> flag, ret |-> S(Chars["SLEWING"])]
        ELSE [flag |-> flag, ret |-> S(Chars["ERROR"])]

ParamList == [i \in 1..Len(param_names) |-> S(Chars[param_names[i]])]

\* onsource, lines 714-716: the point status is stored and returned
onsource_result(g2, ev) ==
    IF IsExc(ev.ret) THEN [g2 EXCEPT !.ret = ev.ret]
    ELSE [cl |-> [g2.cl EXCEPT !.status = DictSet(@, S(Chars["point_status"]), ev.ret)],
          peer |-> g2.peer, ret |-> ev.ret]

\* onsource, lines 646-716: g2 is what the second get() did
onsource_after(g1, g2) ==
    IF IsExc(g2.ret) THEN g2
    ELSE onsource_result(g2, onsource_evaluate(g1.ret, g2.ret))

\* onsource, lines 641-646: g1 is what the first get() did; the status of
\* that sample is classified before the second get()
onsource_before(g1, flag, reply0, reply2) ==
    IF IsExc(g1.ret) THEN g1
    ELSE IF IsExc(flag) THEN [g1 EXCEPT !.ret = flag]
    ELSE onsource_after(g1, get(g1.cl, g1.peer, ParamList, reply0, reply2))

onsource_first(g1, reply0, reply2) ==
    onsource_before(g1,
        IF IsExc(g1.ret) THEN g1.ret
        ELSE determine_antenna_status(DictGet(g1.ret, S(Chars["Status"]))),
        reply0, reply2)

\* onsource, lines 614-716; the replies are the server's answers
onsource(cl, pr, reply0, reply1, reply2) ==
    IF cl.simulated THEN [cl |-> cl, peer |-> pr, ret |-> S(Chars["ONSOURCE"])]
    ELSE onsource_first(get(cl, pr, ParamList, reply0, reply1), reply0, reply2)

(***************************************************************************)
(* Calls of the client's methods.                                          *)
(***************************************************************************)
\* NMCServer.__init__, lines 218-230: the constructor connects or simulates
Construct(simulated, wsn, site, outcome) ==
    IF simulated THEN simulate(NewClient).cl
    ELSE connect_to_hardware(NewClient, wsn, site, outcome).cl

Call(op, args, pre, ret) ==
    [op |-> op, args |-> args, pre |-> pre, ret |-> ret, flag |-> None]

WsnInputs == {I(0), I(1), I(10), S(Chars["abc"])}
SiteInputs == {"CDSCC", "GDSCC", "XDSCC"}
Outcomes == {"connected", "timeout", "refused"}
\* what a server may answer
Replies == {B(Chars["COMPLETED"]), B(Chars["60.0"] \o <<",", SP>> \o Chars["60.1"])}
\* a call has returned r (or raised r.ret)
Returned(op, args, r) ==
    /\ client' = r.cl
    /\ call' = Call(op, args, client, r.ret)

\* a call of a method that talks to the server through command(): r is what
\* the method did to the client and the server, and what it returned or raised
ClientCall(op, args, r) ==
    /\ Len(peer) < MaxSends
    /\ Returned(op, args, r)
    /\ peer' = r.peer
    /\ UNCHANGED simvars

ClientConnect(wsn, site, outcome) ==
    /\ Returned("connect_to_hardware", <<wsn, site, outcome>>,
                connect_to_hardware(client, wsn, site, outcome))
    /\ UNCHANGED <<peer, simvars>>

ClientSimulate ==
    /\ Returned("simulate", <<>>, simulate(client))
    /\ UNCHANGED <<peer, simvars>>

ClientCloseSocket ==
    /\ client' = close_socket(client)
    /\ call' = Call("close_socket", <<>>, client, None)
    /\ UNCHANGED <<peer, simvars>>

(***************************************************************************)
(* The part of onsource() after its two get() calls, applied to pairs of   *)
(* samples.                                                                *)
(***************************************************************************)
\* a sample as get() returns it: the seven names mapped to stripped str fields
MakeSample(az_err, az, az_pred, el_err, el, el_pred, status) ==
    LET vals == <<az_err, az, az_pred, el_err, el, el_pred, status>>
    IN  D([i \in 1..Len(param_names) |->
              <<S(Chars[param_names[i]]), S(Chars[vals[i]])>>])

OnsourceEvaluate ==
    /\ call.op = "samples"
    /\ LET ev == onsource_evaluate(call.args[1], call.args[2])
       IN  /\ call' = [call EXCEPT !.op = "onsource_evaluate", !.ret = ev.ret,
                                   !.flag = ev.flag]
           /\ client' = IF IsExc(ev.ret) THEN client
                        ELSE [client EXCEPT !.status =
                                 DictSet(@, S(Chars["point_status"]), ev.ret)]
    /\ UNCHANGED <<peer, simvars>>

Init ==
    /\ SimInit
    /\ client = Construct(TRUE, I(0), "CDSCC", "connected")
    /\ peer = <<>>
    /\ call = Call("", <<>>, client, None)

(***************************************************************************)
(* One connection: framing, dispatch and the handlers a request received   *)
(* from the socket reaches.                                                *)
(***************************************************************************)
Next ==
    \/ \E line \in
          {Line(<<"ANTENNA", "PO", "EL", "5.0">>), Line(<<"FOO">>), Line(<<"ANTENNA", "FOO">>),
           Line(<<"ANTENNA">>),
           Line(<<"antenna", "po", "xel", "2.5">>),
           Line(<<"ANTENNA", "PO", "EL", "abc">>),
           Line(<<"ANTENNA", "RO", "EL", "1.0">>),
           Line(<<"ANTENNA", "CLR", "PO">>),
           Line(<<"ANTENNA", "CLR", "RO">>),
           Line(<<"ANTENNA", "HI">>),
           Line(<<"ANTENNA", "AZEL">>),
           Line(<<"PARAM", "ElevationPositionOffset">>),
           Line(<<"GET_OFFSETS">>),
           Line(<<"GET_COMMANDS">>),
           Line(<<"GET_PARAMS">>)} :
          Request(1, line)
    \/ Close(1)
    \/ \E k \in 1..recv_val : Recv(1, k)
    \/ RecvEof(1)
    \/ ProcessReply(1)
    \/ ProcessCall(1)
    \/ GetParam(1)
    \/ GetReturn(1)
    \/ GetOffsetsEl(1)
    \/ GetOffsetsXel(1)
    \/ SetOffsetCheck(1)
    \/ SetRate(1)

Spec == Init /\ [][Next]_vars

(***************************************************************************)
(* Two connections whose requests start position trackers (RADEC), and     *)
(* the trackers.                                                           *)
(***************************************************************************)
NextPoint ==
    \/ \E c \in Conns, line \in {Line(<<"ANTENNA", "RADEC", "10", "20">>),
                                 Line(<<"GET_AZEL">>)} :
          Len(sentlog[c]) < MaxRequests /\ Request(c, line)
    \/ \E c \in Conns :
          Recv(c, IF Len(wire[c]) < recv_val THEN Len(wire[c]) ELSE recv_val)
    \/ \E c \in Conns : ProcessReply(c)
    \/ \E c \in Conns : ProcessCall(c)
    \/ \E c \in Conns : ThreadSteps(c)
    \/ \E t \in 1..MaxThreads : PointInit(t)
    \/ \E t \in 1..MaxThreads : PointLoop(t)
    \/ \E t \in 1..MaxThreads : PointCalc(t, <<AzStart, ElStart + 300>>)
    \/ \E t \in 1..MaxThreads : PointPredictEl(t)
    \/ \E t \in 1..MaxThreads : PointMove(t)
    \/ \E t \in 1..MaxThreads : PointStore(t)

SpecPoint == Init /\ [][NextPoint]_vars

(***************************************************************************)
(* One direct caller of the sub-command handlers (RO, PO, CLR) and the     *)
(* rate integrators its calls start.                                       *)
(***************************************************************************)
NextRate ==
    \/ \E cl \in RateCalls : DirectCall(3, cl[1], cl[2])
    \/ SetOffsetCheck(3)
    \/ SetOffsetWrite(3)
    \/ SetOffsetWriteAccum(3)
    \/ ClearOffsets(3)
    \/ SetRate(3)
    \/ ThreadSteps(3)
    \/ \E t \in 1..MaxThreads : RateInit(t)
    \/ \E t \in 1..MaxThreads : RateLoop(t)
    \/ \E t \in 1..MaxThreads : RateRead(t)
    \/ \E t \in 1..MaxThreads : RateWrite(t)

SpecRate == Init /\ [][NextRate]_vars

(***************************************************************************)
(* The client and the calls made on it.                                    *)
(***************************************************************************)
NextClient ==
    \/ \E wsn \in WsnInputs, site \in SiteInputs, o \in Outcomes :
          ClientConnect(wsn, site, o)
    \/ ClientSimulate
    \/ ClientCloseSocket
    \/ \E o \in Outcomes :
          /\ Returned("reconnect_to_hardware", <<>>, reconnect_to_hardware(client, o))
          /\ UNCHANGED <<peer, simvars>>
    \/ \E c \in {S(Chars["GET_OFFSETS"] \o <<NL>>), B(Chars["GET_OFFSETS"] \o <<NL>>)},
          r \in Replies : ClientCall("command", <<c>>, command(client, peer, c, r))
    \/ \E ps \in {<<S(Chars["AzimuthAngle"])>>,
                  <<S(Chars["AzimuthAngle"]), S(Chars["ElevationAngle"])>>},
          r0 \in Replies, r \in Replies :
          ClientCall("get", ps, get(client, peer, ps, r0, r))
    \* a request with an unregistered name, answered with the one registered value
    \/ \E ps \in {<<S(Chars["AzimuthAngle"]), S(Chars["Bogus"])>>}, r0 \in Replies :
          ClientCall("get", ps, get(client, peer, ps, r0, B(Chars["60.0"])))
    \/ \E r0 \in Replies, r1 \in Replies, r2 \in Replies :
          ClientCall("onsource", <<>>, onsource(client, peer, r0, r1, r2))

InitClient ==
    /\ SimInit
    /\ \E sim \in BOOLEAN, wsn \in WsnInputs, site \in SiteInputs, o \in Outcomes :
          client = Construct(sim, wsn, site, o)
    /\ peer = <<>>
    /\ call = Call("", <<>>, client, None)

SpecClient == InitClient /\ [][NextClient]_vars

(***************************************************************************)
(* The client's commanding methods: offsets, rates, moves and pointing.    *)
(***************************************************************************)
NextSetters ==
    \/ \E a \in {S(Chars["EL"]), S(Chars["xel"])}, v \in {F(2500), I(0), S(Chars["5.0"])},
          r \in Replies :
          ClientCall("set_offset_one_axis", <<a, v>>,
                     set_offset_one_axis(client, peer, a, v, r))
    \/ \E v1 \in {F(2500), I(0)}, v2 \in {F(0 - 1500), I(0)}, r \in Replies :
          ClientCall("set_offset", <<S(Chars["EL"]), S(Chars["XEL"]), v1, v2>>,
                     set_offset(client, peer, S(Chars["EL"]), S(Chars["XEL"]), v1, v2, r))
    \/ \E p \in {F(45 * Scale), I(10)}, a \in {S(Chars["EL"]), S(Chars["AZ"])},
          r \in Replies :
          ClientCall("move", <<p, a>>, move(client, peer, p, a, r))
    \/ \E a \in {S(Chars["EL"]), S(Chars["xel"]), S(Chars["FOO"])}, v \in {F(1000), I(0)},
          r \in Replies :
          ClientCall("set_rate", <<a, v>>, set_rate(client, peer, a, v, r))
    \/ \E e \in {S(Chars["J2000"]), S(Chars["Now"]), S(Chars["B1950"]), None},
          pre \in {<<F(10200), F(20100)>>}, r \in Replies :
          ClientCall("point_radec", <<F(10 * Scale), F(20 * Scale), e>>,
                     point_radec(client, peer, F(10 * Scale), F(20 * Scale), e, pre, r))

SpecSetters == InitClient /\ [][NextSetters]_vars

(***************************************************************************)
(* One connection whose handler thread is always scheduled: every recv()   *)
(* returns once bytes are there or the peer has closed, and a received     *)
(* request is processed.  The client sends complete request lines,         *)
(* requests that have no line terminator yet and two request lines at      *)
(* once, and may close at any time.                                        *)
(***************************************************************************)
NextLive ==
    \/ \E line \in {Line(<<"FOO">>), Line(<<"ANTENNA">>), Line(<<"ANTENNA", "HI">>),
                     Chars["GET_OFFSETS"], Chars["FOO"],
                     Line(<<"ANTENNA", "HI">>) \o Line(<<"FOO">>)} :
          Request(1, line)
    \/ Close(1)
    \/ \E k \in 1..recv_val : Recv(1, k)
    \/ RecvEof(1)
    \/ ProcessReply(1)

\* the third condition is weak fairness of ProcessReply(1), the only step
\* that takes the handler from process_request back to its first recv()
SpecLive ==
    /\ Init
    /\ [][NextLive]_vars
    /\ WF_vars(\E k \in 1..recv_val : Recv(1, k))
    /\ WF_vars(RecvEof(1))
    /\ WF_pc(pc[1] = "process" /\ pc' = [pc EXCEPT ![1] = "recv"])

(***************************************************************************)
(* Two connections, each served by a handler thread of its own, sending    *)
(* ONSOURCE requests.                                                      *)
(***************************************************************************)
NextCounter ==
    \/ \E c \in Conns : Request(c, Line(<<"ONSOURCE">>))
    \/ \E c \in Conns :
          Recv(c, IF Len(wire[c]) < recv_val THEN Len(wire[c]) ELSE recv_val)
    \/ \E c \in Conns : ProcessCall(c)
    \/ \E c \in Conns : OnsourceTest(c)
    \/ \E c \in Conns : OnsourceReset(c)
    \/ \E c \in Conns : OnsourceLoad(c)
    \/ \E c \in Conns : OnsourceStore(c)

SpecCounter == Init /\ [][NextCounter]_vars

(***************************************************************************)
(* One position tracker that is never stopped and whose thread is always   *)
(* scheduled, with a commanded position that stays where its first tick    *)
(* found it.                                                               *)
(***************************************************************************)
NextSettle ==
    \/ \E u \in {Scale \div 2, Scale, 2 * Scale} : StartTracker(u)
    \/ PointInit(1)
    \/ PointLoop(1)
    \/ \E tgt \in {<<AzStart, ElStart + 300>>, <<AzStart + 2 * Scale, ElStart - 300>>,
                    <<AzStart - 460, ElStart>>} :
          /\ threads # <<>>
          /\ threads[1].tgt \in {<<0, 0>>, tgt}
          /\ PointCalc(1, tgt)
    \/ PointPredictEl(1)
    \/ PointMove(1)
    \/ PointStore(1)

\* every step is a step of the one thread
SpecSettle == Init /\ [][NextSettle]_vars /\ WF_vars(NextSettle)

(***************************************************************************)
(* The client's status dictionary and its two accessors.                   *)
(***************************************************************************)
NextStatus ==
    \/ \E args \in {<<S(Chars["point_status"]), S(Chars["SLEWING"])>>,
                     <<S(Chars["antenna_status"]), S(Chars["operational"])>>,
                     <<S(Chars["angle"]), S(Chars["az"]), F(10200)>>,
                     <<S(Chars["angle"]), S(Chars["el"]), F(60100)>>,
                     <<S(Chars["offset"]), S(Chars["xel"]), F(2500)>>,
                     <<S(Chars["FOO"]), F(0)>>,
                     <<S(Chars["point_status"])>>,
                     <<>>} :
          ClientCall("_update_status", args, _update_status(client, peer, args))
    \/ \E args \in {<<>>,
                     <<S(Chars["point_status"])>>,
                     <<S(Chars["antenna_status"])>>,
                     <<S(Chars["angle"])>>,
                     <<S(Chars["angle"]), S(Chars["az"])>>,
                     <<S(Chars["angle"]), S(Chars["el"])>>,
                     <<S(Chars["offset"]), S(Chars["xel"])>>,
                     <<S(Chars["FOO"])>>} :
          ClientCall("get_status", args, get_status(client, peer, args))

SpecStatus == InitClient /\ [][NextStatus]_vars

InitOnsource ==
    /\ SimInit
    /\ client = Construct(FALSE, I(0), "CDSCC", "connected")
    /\ peer = <<>>
    /\ \E b \in {MakeSample("0", az, "10.0", "0", el, "60.0", st) :
                      az \in {"10.0", "10.2"}, el \in {"60.0", "60.1"},
                      st \in {"operational", "Operational", "marginal",
                              "critical", "Critical", "degraded"}}
                   \cup {NoneDict(ParamList)},
          a \in {MakeSample(s[1], s[2], s[3], s[4], s[5], s[6], s[7]) :
                      s \in {"0", "0.2"} \X {"10.0", "10.2"} \X {"10.0", "10.4"}
                            \X {"0", "0.2"} \X {"60.0", "60.1"} \X {"60.0", "60.2"}
                            \X {"operational", "critical"}} :
          call = Call("samples", <<b, a>>, client, None)

SpecOnsource == InitOnsource /\ [][OnsourceEvaluate]_vars

(***************************************************************************)
(* Properties of framing and dispatch (specification Spec).                *)
(***************************************************************************)
\* the stripped tokens of a request line
Tokens(line) ==
    LET parts == Split(line, SP) IN [i \in 1..Len(parts) |-> Strip(parts[i])]

RegisteredCommands == {Chars[CommandNames[i]] : i \in 1..Len(CommandNames)}
RegisteredSubcommands == {Chars[SubcommandNames[i]] : i \in 1..Len(SubcommandNames)}

KnownCommand(line) == Upper(Tokens(line)[1]) \in RegisteredCommands

\* ANTENNA with no sub-command, or with one that is not registered
UnknownSubcommand(line) ==
    /\ Upper(Tokens(line)[1]) = Chars["ANTENNA"]
    /\ \/ Len(Tokens(line)) = 1
       \/ Upper(Tokens(line)[2]) \notin RegisteredSubcommands

WireEntry(line, resp) ==
    [via |-> "wire", line |-> line, h |-> "", args |-> <<>>, resp |-> resp]

ParamLine == Line(<<"PARAM", "ElevationPositionOffset">>)

\* C1 (as the specification states it): the request ANTENNA PO EL 5.0 is
\* answered COMPLETED and a following PARAM ElevationPositionOffset request
\* returns 5.0.
C1_PoCompletedAndReadBack ==
    \A i \in 1..Len(hist[1]) :
        hist[1][i].line = Line(<<"ANTENNA", "PO", "EL", "5.0">>) =>
            /\ hist[1][i].resp = B(Chars["COMPLETED"])
            /\ (i < Len(hist[1]) /\ hist[1][i+1].line = ParamLine)
                  => hist[1][i+1].resp = B(Chars["5.0"])

\* C2: when the handler dispatches a line whose upper-cased first token is no
\* registered command, the reply sent is ERROR, no antenna state changes, and
\* the handler is back at recv() on the same connection.
C2_UnknownCommandAnswersError ==
    [][\A c \in Conns :
          (pc[c] = "process" /\ pc'[c] # "process" /\ ~KnownCommand(accum[c]))
          => /\ hist'[c] = Append(hist[c], WireEntry(accum[c], B(Chars["ERROR"])))
             /\ pc'[c] = "recv"
             /\ UNCHANGED antvars]_vars

\* an unknown command was answered ERROR and the next request on the same
\* connection was served
C2_Witness ==
    /\ Len(hist[1]) = 2
    /\ hist[1][1] = WireEntry(Line(<<"FOO">>), B(Chars["ERROR"]))
    /\ hist[1][2].resp = B(Chars["COMPLETED"])

\* C3 (as the specification states it): ANTENNA with an unregistered
\* sub-command, or with none, is answered REJECTED.
C3_UnknownSubcommandRejected ==
    \A i \in 1..Len(hist[1]) :
        UnknownSubcommand(hist[1][i].line)
            => hist[1][i].resp = B(Chars["REJECTED"])

\* C4: the request the handler dispatches, and the request its reply is logged
\* for, is the line the client sent, whatever the sizes of the deliveries.
C4_DispatchesTheLineSent ==
    \A c \in Conns :
        /\ pc[c] = "process" => accum[c] = sentlog[c][Len(sentlog[c])]
        /\ \A i \in 1..Len(hist[c]) : hist[c][i].line = sentlog[c][i]

\* a line longer than two full reads has been assembled from deliveries of
\* which the last was a single byte
C4_Witness ==
    /\ pc[1] = "process"
    /\ accum[1] = Line(<<"ANTENNA", "PO", "EL", "5.0">>)
    /\ Len(accum[1]) > 2 * recv_val
    /\ Len(data[1]) = 1

(***************************************************************************)
(* Properties of the worker threads (specifications SpecPoint, SpecRate).  *)
(***************************************************************************)
\* the workers of a kind whose run() has been started and has not returned
Alive(kind) ==
    {t \in 1..Len(threads) : threads[t].kind = kind /\ threads[t].tpc # "dead"}

\* C5 (as the specification states it): at most one rate integrator and at
\* most one position tracker are alive in every reachable state.
C5_AtMostOneWorkerPerKind ==
    /\ Cardinality(Alive("rate")) <= 1
    /\ Cardinality(Alive("point")) <= 1

\* C6 (as the specification states it): a tick's write stores the value the
\* axis holds at that moment plus the rate, so that no write that landed after
\* the tick's read is overwritten.
C6_TickUpdateIsAtomic ==
    [][\A t \in 1..Len(threads) :
          (threads[t].kind = "rate" /\ threads[t].tpc = "write"
              /\ threads'[t].tpc = "loop")
          => offsets'[threads[t].axis].accumulated =
                offsets[threads[t].axis].accumulated + threads[t].rate]_vars

(***************************************************************************)
(* One caller of the antenna's own methods set_offset and get_offset.      *)
(***************************************************************************)
NextApi ==
    \/ \E a \in {S(Chars["EL"]), S(Chars["XEL"]), S(Chars["xel"]), B(Chars["EL"])},
          v \in {F(5 * Scale), F(0 - 2500), I(1), S(Chars["2.5"]), S(Chars["abc"])} :
          ApiCall(3, "set_offset", <<a, v>>)
    \/ \E a \in {S(Chars["EL"]), S(Chars["XEL"]), S(Chars["el"])} :
          ApiCall(3, "get_offset", <<a>>)
    \/ SetOffsetCheck(3)
    \/ SetOffsetWrite(3)
    \/ SetOffsetWriteAccum(3)
    \/ GetOffset(3)

SpecApi == Init /\ [][NextApi]_vars

(***************************************************************************)
(* One position tracker constructed with a tick period of its own, and a   *)
(* commanded position that jumps between two places; beside it one caller  *)
(* of the antenna's set_offset, which takes the lock for its two stores.   *)
(***************************************************************************)
NextTick ==
    \/ \E u \in {Scale \div 2, Scale, 2 * Scale} : StartTracker(u)
    \/ PointInit(1)
    \/ PointLoop(1)
    \/ \E tgt \in {<<AzStart, ElStart + 300>>, <<AzStart + 2 * Scale, ElStart - 300>>} :
          PointCalc(1, tgt)
    \/ PointPredictEl(1)
    \/ PointMove(1)
    \/ PointStore(1)
    \/ ApiCall(3, "set_offset", <<S(Chars["EL"]), F(5 * Scale)>>)
    \/ SetOffsetCheck(3)
    \/ SetOffsetWrite(3)
    \/ SetOffsetWriteAccum(3)

SpecTick == Init /\ [][NextTick]_vars

(***************************************************************************)
(* The weather poller and what the weather service answers.                *)
(***************************************************************************)
NextWeather ==
    \/ StartWeather
    \/ WeatherLoop(1)
    \/ \E ok \in BOOLEAN, v \in {I(20), I(25)},
          has \in {{"temperature", "pressure", "humidity", "windspeed", "winddirection"},
                   {"temperature", "pressure", "humidity"},
                   {"temperature", "humidity", "windspeed", "winddirection"},
                   {"windspeed", "winddirection"}} :
          WeatherFetch(1, [ok |-> ok, has |-> has, v |-> v])
    \/ WeatherStore(1)

SpecWeather == Init /\ [][NextWeather]_vars

(***************************************************************************)
(* Properties of the client (specifications SpecClient, SpecOnsource).     *)
(***************************************************************************)
\* the client held an open socket and was not simulated when the call began
WasConnected == ~call.pre.simulated /\ call.pre.sock = "open"

PointStatuses == {S(Chars["ONSOURCE"]), S(Chars["SLEWING"]), S(Chars["ERROR"])}

\* C7 (as the specification states it): on a connected client onsource()
\* returns one of ONSOURCE, SLEWING and ERROR, as the six comparisons and the
\* operational flag decide.
C7_OnsourceReturnsPointStatus ==
    (call.op = "onsource" /\ WasConnected) => call.ret \in PointStatuses

\* the Status text of a sample
StatusOf(sample) == DictGet(sample, S(Chars["Status"]))

\* the flag as the specification derives it from a Status text
OperationalFlag(text) ==
    IF Contains(Lower(text), Chars["operational"]) THEN TRUE
    ELSE IF Contains(Lower(text), Chars["marginal"]) THEN TRUE
    ELSE IF Contains(Lower(text), Chars["critical"]) THEN FALSE
    ELSE TRUE

\* C8: the operational flag onsource() uses is the classification of the
\* Status text of the first sample, case-insensitively (operational or
\* marginal: true; else critical: false; else true), and it is that flag which
\* chooses between SLEWING and ERROR.
C8_FlagFromFirstSampleStatus ==
    (call.op = "onsource_evaluate" /\ StatusOf(call.args[1]).t = "str")
    => /\ call.flag = Bool(OperationalFlag(StatusOf(call.args[1]).v))
       /\ call.ret = S(Chars["SLEWING"]) => call.flag.v
       /\ call.ret = S(Chars["ERROR"]) => ~call.flag.v

\* the first sample says Critical, the second operational, and the antenna is
\* off source: the flag is false and the answer is ERROR
C8_Witness ==
    /\ call.op = "onsource_evaluate"
    /\ StatusOf(call.args[1]) = S(Chars["Critical"])
    /\ StatusOf(call.args[2]) = S(Chars["operational"])
    /\ call.flag = Bool(FALSE)
    /\ call.ret = S(Chars["ERROR"])

C10_GetReturnsMapping ==
    (call.op = "get" /\ WasConnected)
    => /\ call.ret.t = "dict"
       /\ Len(call.ret.v) = Len(call.args)
       /\ \A i \in 1..Len(call.args) : call.ret.v[i][1] = call.args[i]

\* C14 (as the specification states it): GET_COMMANDS and GET_PARAMS are each
\* answered with the registered names, in registration order, joined by a
\* comma and a space.
C14_EnumerationsAnswered ==
    \A c \in Conns : \A i \in 1..Len(hist[c]) :
        /\ hist[c][i].line = Line(<<"GET_COMMANDS">>)
           => hist[c][i].resp =
                 B(Join([k \in 1..Len(CommandNames) |-> Chars[CommandNames[k]]],
                        <<",", SP>>))
        /\ hist[c][i].line = Line(<<"GET_PARAMS">>)
           => hist[c][i].resp =
                 B(Join([k \in 1..Len(ParamNames) |-> Chars[ParamNames[k]]],
                        <<",", SP>>))

\* C17 (as the specification states it): an ANTENNA CLR PO request is answered
\* COMPLETED.
C17_ClrPoCompleted ==
    \A c \in Conns : \A i \in 1..Len(hist[c]) :
        hist[c][i].line = Line(<<"ANTENNA", "CLR", "PO">>)
        => hist[c][i].resp = B(Chars["COMPLETED"])

\* C16 (as the specification states it): an onsource() call that returns a
\* value leaves point_status equal to that value, in simulated mode too.
C16_PointStatusIsWhatWasReturned ==
    (call.op = "onsource" /\ ~IsExc(call.ret))
    => DictGet(client.status, S(Chars["point_status"])) = call.ret

(***************************************************************************)
(* Properties of the antenna's methods (specification SpecApi).            *)
(***************************************************************************)
\* call i of the caller was set_offset(axis, v) and returned, and call i + 1
\* was get_offset of the same axis
SetThenGet(i) ==
    /\ i + 1 <= Len(hist[3])
    /\ hist[3][i].h = "set_offset"
    /\ hist[3][i].resp = None
    /\ hist[3][i + 1].h = "get_offset"
    /\ hist[3][i + 1].args[1] \in {S(Chars["EL"]), S(Chars["XEL"])}
    /\ Upper(hist[3][i].args[1].v) = hist[3][i + 1].args[1].v

\* C11: set_offset(axis, v) on EL or XEL followed, with no write to the axis
\* in between, by get_offset(axis) returns v: the very float that was given,
\* or the float a number or a numeric text stands for.
C11_GetOffsetReturnsWhatWasSet ==
    \A i \in 1..Len(hist[3]) :
        SetThenGet(i)
        => LET v == hist[3][i].args[2]
               r == hist[3][i + 1].resp
           IN  /\ r.t = "float"
               /\ v.t = "float" => r = v
               /\ v = I(1) => r.v = Scale
               /\ v = S(Chars["2.5"]) => r.v = 2500

\* set_offset("xel", -2.5) returned and get_offset("XEL") gave -2.5
C11_Witness ==
    /\ SetThenGet(1)
    /\ hist[3][1].args = <<S(Chars["xel"]), F(0 - 2500)>>
    /\ hist[3][2].resp = F(0 - 2500)

(***************************************************************************)
(* Properties of the workers' stop protocol (specification SpecPoint).     *)
(***************************************************************************)
\* C15 (as the specification states it): a worker on which a stop has been
\* requested starts no further tick: from its loop test it only leaves the
\* loop.
C15_NoTickAfterStop ==
    [][\A t \in 1..Len(threads) :
          (threads[t].stop /\ threads[t].tpc = "loop")
          => threads'[t].tpc \in {"loop", "dead"}]_vars

(***************************************************************************)
(* Properties of the position tracker (specification SpecTick).            *)
(***************************************************************************)
\* C12 (as the specification states it): a step of the tracker changes actual
\* on an axis by at most slew_rate x update_rate, whatever the tick period
\* the tracker was constructed with.
C12_StepWithinRateTimesPeriod ==
    [][\A ax \in {"AZ", "EL"} :
          threads # <<>> =>
             Abs(point'[ax].actual - point[ax].actual) * Scale
                <= slew_rate * threads[1].update_rate]_vars

(***************************************************************************)
(* Properties of the weather poller (specification SpecWeather).           *)
(***************************************************************************)
\* C13 (as the specification states it): a tick whose reply lacks one of the
\* five fields changes none of temperature, pressure, humidity, windspeed and
\* winddirection, and the poller goes back to its loop.
C13_FailedPollChangesNothing ==
    [][\A t \in 1..Len(threads) :
          ( /\ threads[t].kind = "weather"
            /\ threads[t].tpc = "store"
            /\ threads'[t].tpc # "store"
            /\ \E i \in 1..Len(WeatherFields) : WeatherFields[i] \notin threads[t].tgt.has )
          => weather' = weather /\ threads'[t].tpc = "loop"]_vars

(***************************************************************************)
(* Properties of the client's commanding methods (specification            *)
(* SpecSetters).                                                           *)
(***************************************************************************)
SetterOps == {"set_offset", "set_offset_one_axis", "set_rate", "move", "point_radec"}

AcceptedAxes ==
    {Chars["AZ"], Chars["EL"], Chars["XEL"], Chars["HA"], Chars["DEC"], Chars["XDEC"]}

AcceptedEpochs == {Chars["j2000"], Chars["now"]}

\* the last call was given numbers where numbers are expected, a known axis
\* and a supported epoch
WellFormedCall ==
    /\ call.op = "set_offset_one_axis" => call.args[2].t \in {"float", "int"}
    /\ call.op = "set_rate" => Upper(call.args[1].v) \in AcceptedAxes
    /\ call.op = "point_radec"
       => IsText(call.args[3]) /\ Lower(call.args[3].v) \in AcceptedEpochs

\* C18 (as the specification states it): on a connected client each of
\* set_offset, set_offset_one_axis, set_rate, move and point_radec sends its
\* command and returns the server's completion token (COMPLETED or REJECTED)
\* as a value; none of them raises.
C18_SettersReturnCompletion ==
    (call.op \in SetterOps /\ WasConnected /\ WellFormedCall)
    => /\ ~IsExc(call.ret)
       /\ call.ret # None
       /\ peer # <<>>

\* the last call was point_radec with an epoch that is neither J2000 nor now
\* in any letter case
BadEpochCall ==
    /\ call.op = "point_radec"
    /\ IsText(call.args[3])
    /\ Lower(call.args[3].v) \notin AcceptedEpochs

\* C19: point_radec with an epoch other than J2000 or now, in any letter
\* case, raises RuntimeError; the step sends nothing to the server or to the
\* simulator and leaves the client as it was. J2000 and Now, in these letter
\* cases, are not refused.
C19_BadEpochRaisesBeforeSending ==
    [][/\ BadEpochCall'
          => /\ call'.ret = Raise("RuntimeError")
             /\ client' = client
             /\ peer' = peer
       /\ (call'.op = "point_radec" /\ IsText(call'.args[3]) /\ ~BadEpochCall')
          => call'.ret # Raise("RuntimeError")]_vars

C19_Witness ==
    /\ BadEpochCall
    /\ call.args[3] = S(Chars["B1950"])
    /\ call.ret = Raise("RuntimeError")
    /\ client = call.pre

\* C20 (as the specification states it): set_rate with an axis outside AZ, EL,
\* XEL, HA, DEC and XDEC raises and sends nothing, on a connected client and
\* on a simulated one.
C20_UnknownAxisRaises ==
    (call.op = "set_rate" /\ Upper(call.args[1].v) \notin AcceptedAxes)
    => IsExc(call.ret) /\ client = call.pre

(***************************************************************************)
(* Properties of the lock (specifications SpecTick, SpecRate).             *)
(***************************************************************************)
\* C21 (as the specification states it): every write of offsets, point and
\* the weather fields is made by the holder of the lock, so while a context
\* holds the lock nothing but that context's own step changes them.
C21_WritesOnlyByLockHolder ==
    [][\A c \in Ctx :
          lock = c
          => /\ point' = point
             /\ weather' = weather
             /\ offsets' # offsets => pc'[c] # pc[c]]_vars

\* positions at which a context waits: in recv(), for a caller's next call,
\* or in the stop and join of a worker and the start of the next one
Blocked(c) ==
    pc[c] \in {"recv", "more", "idle", "done", "th_chk", "th_stop", "th_joincall",
               "th_wait", "th_start", "th_assign"}

StatusTokens == {Chars["COMPLETED"], Chars["REJECTED"], Chars["ERROR"]}

\* C23 (as the specification states it): every request whose first token is
\* a registered command other than PARAM, GET_PARAMS and GET_COMMANDS is
\* answered, and the first token of the answer is COMPLETED, REJECTED or
\* ERROR.
C23_AnsweredWithStatusToken ==
    \A i \in 1..Len(hist[1]) :
        ( /\ KnownCommand(hist[1][i].line)
          /\ Upper(Tokens(hist[1][i].line)[1])
                \notin {Chars["PARAM"], Chars["GET_PARAMS"], Chars["GET_COMMANDS"]} )
        => /\ hist[1][i].resp.t = "bytes"
           /\ Tokens(hist[1][i].resp.v)[1] \in StatusTokens

\* C28 (as the specification states it): the request ANTENNA CLR RO is
\* answered COMPLETED, and when it is answered both rates are 0 and no rate
\* integrator is running.
C28_ClrRoCompleted ==
    [][\A c \in Conns :
          ( /\ Len(hist'[c]) = Len(hist[c]) + 1
            /\ accum[c] = Line(<<"ANTENNA", "CLR", "RO">>) )
          => /\ hist'[c][Len(hist'[c])].resp = B(Chars["COMPLETED"])
             /\ \A a \in DOMAIN offsets : offsets'[a].rate = 0
             /\ \A t \in 1..Len(threads') :
                   threads'[t].kind = "rate" => threads'[t].tpc = "dead"]_vars

(***************************************************************************)
(* Further properties of the client (specification SpecClient).            *)
(***************************************************************************)
\* C24 (as the specification states it): command(text) on a connected client
\* sends the text once and returns the bytes of one receive as they came.
C24_CommandSendsOnceReturnsReply ==
    (call.op = "command" /\ WasConnected /\ call.args[1].t = "str")
    => /\ call.ret \in Replies
       /\ peer # <<>>
       /\ peer[Len(peer)] = call.args[1].v

(***************************************************************************)
(* Further properties of the rate integrators (specification SpecRate).    *)
(***************************************************************************)
\* C25 (as the specification states it): an RO on one axis does not stop a
\* rate integrator that runs for the other axis.
C25_RoLeavesOtherAxisRunning ==
    [][\A t \in 1..Len(threads) : \A c \in Ctx :
          ( /\ pc[c] = "th_stop"
            /\ pc'[c] # "th_stop"
            /\ loc[c].cont = "ro"
            /\ threads[t].kind = "rate"
            /\ threads[t].axis # loc[c].axis )
          => threads'[t].stop = threads[t].stop]_vars

(***************************************************************************)
(* Further properties of the position tracker (specification SpecTick).    *)
(***************************************************************************)
\* C26: a step of the tracker on an axis leaves predicted alone and moves
\* actual onto predicted when they are no more than slew_rate apart, and
\* otherwise by exactly slew_rate towards predicted; actual never ends on the
\* other side of predicted.
C26_StepNeverOvershoots ==
    [][\A ax \in {"AZ", "EL"} :
          ( /\ threads # <<>>
            /\ threads[1].tpc = (IF ax = "AZ" THEN "mv_az" ELSE "mv_el")
            /\ threads'[1].tpc # threads[1].tpc )
          => LET p    == point[ax]
                 q    == point'[ax]
                 diff == p.predicted - p.actual
             IN  /\ q.predicted = p.predicted
                 /\ Abs(diff) <= slew_rate => q.actual = p.predicted
                 /\ Abs(diff) > slew_rate
                    => /\ Abs(q.actual - p.actual) = slew_rate
                       /\ Abs(p.predicted - q.actual) = Abs(diff) - slew_rate
                 /\ (p.predicted - q.actual) * diff >= 0]_vars

\* the elevation has reached a commanded position 0.3 degrees away: one full
\* step and one closing step
C26_Witness ==
    /\ threads # <<>>
    /\ threads[1].tpc = "store"
    /\ point["EL"].predicted = ElStart + 300
    /\ point["EL"].actual = ElStart + 300
    /\ point["AZ"].actual = AzStart

(***************************************************************************)
(* Further properties of onsource() (specification SpecOnsource).          *)
(***************************************************************************)
\* the six comparisons of onsource() on two samples, with every cross-elevation
\* value taken from a like pair of one sample: (AzimuthAngle, ElevationAngle),
\* (AzimuthTrackingError, ElevationTrackingError) and (AzimuthPredictedAngle,
\* ElevationPredictedAngle)
OnSourceByLikePairs(before, after) ==
    LET el_prev      == Sample(before, "ElevationAngle").v
        el_cur       == Sample(after, "ElevationAngle").v
        el_err_cur   == Sample(after, "ElevationTrackingError").v
        el_pred_cur  == Sample(after, "ElevationPredictedAngle").v
        xel_prev     == xel(el_prev, Sample(before, "AzimuthAngle").v)
        xel_cur      == xel(el_cur, Sample(after, "AzimuthAngle").v)
        xel_err_cur  == xel(el_err_cur, Sample(after, "AzimuthTrackingError").v)
        xel_pred_cur == xel(el_pred_cur, Sample(after, "AzimuthPredictedAngle").v)
    IN  /\ Abs(xel_err_cur) < az_tol
        /\ Abs(el_err_cur) < el_tol
        /\ Abs(xel_cur - xel_prev) < az_tol
        /\ Abs(el_cur - el_prev) < el_tol
        /\ Abs(xel_pred_cur - xel_cur) < az_pred_tol
        /\ Abs(el_pred_cur - el_cur) < el_pred_tol

\* C27 (as the specification states it): the answer of onsource() is ONSOURCE
\* exactly when the six comparisons hold with each cross-elevation value
\* computed from a like pair of the same sample.
C27_XelFromLikePairs ==
    (call.op = "onsource_evaluate" /\ ~IsExc(call.ret))
    => (call.ret = S(Chars["ONSOURCE"])
           <=> OnSourceByLikePairs(call.args[1], call.args[2]))

(***************************************************************************)
(* Properties of the status dictionary (specification SpecStatus).         *)
(***************************************************************************)
\* path names a key of status, or a key of a dictionary that is the value of
\* a key of status
ValidPath(status, path) ==
    /\ Len(path) \in {1, 2}
    /\ ~IsExc(DictGet(status, path[1]))
    /\ Len(path) = 2
       => /\ DictGet(status, path[1]).t = "dict"
          /\ ~IsExc(DictGet(DictGet(status, path[1]), path[2]))

\* C29 (as the specification states it): get_status() with no key returns the
\* whole dictionary, and an _update_status(k1, .., kn, value) on a valid path
\* of depth 1 or 2 followed by get_status(k1, .., kn) returns value.
C29_UpdateThenGetReturnsValue ==
    [][/\ (call'.op = "get_status" /\ call'.args = <<>>) => call'.ret = client.status
       /\ ( /\ call.op = "_update_status"
            /\ Len(call.args) >= 2
            /\ ValidPath(call.pre.status, SubSeq(call.args, 1, Len(call.args) - 1))
            /\ call'.op = "get_status"
            /\ call'.args = SubSeq(call.args, 1, Len(call.args) - 1) )
          => /\ call.ret = None
             /\ call'.ret = call.args[Len(call.args)]]_vars

(***************************************************************************)
(* Termination of the connection handler (specification SpecLive).         *)
(***************************************************************************)
\* C30 (as the specification states it): once the peer has closed its
\* connection the handler's loop terminates, also when the close comes after
\* a request that has no line terminator yet.
C30_HandlerEndsAfterClose ==
    peer_closed[1] ~> (pc[1] = "done")

(***************************************************************************)
(* Framing of requests sent without waiting (specification SpecLive).      *)
(***************************************************************************)
\* C31 (as the specification states it): one request is dispatched per line
\* terminator received; bytes that follow a terminator are not part of the
\* request being dispatched.
C31_OneRequestPerTerminator ==
    \A i \in 1..Len(hist[1]) :
        IndexOf(hist[1][i].line, NL) = Len(hist[1][i].line)

(***************************************************************************)
(* Simulated mode and the socket (specification SpecClient).               *)
(***************************************************************************)
\* C32: after construction and after every connect_to_hardware,
\* reconnect_to_hardware, simulate or close_socket call the client is in
\* simulated mode exactly when it holds no socket object, and a request
\* routed through command() by a simulated client sends nothing on a socket.
C32_SimulatedIffNoSocket ==
    /\ client.simulated <=> client.sock = "none"
    /\ [][/\ client'.simulated <=> client'.sock = "none"
          /\ (client.simulated /\ call'.op \in {"command", "get", "onsource"})
             => /\ peer' = peer
                /\ ~IsExc(call'.ret)]_vars

\* a reconnect from a closed socket has fallen back to the simulator
C32_Witness ==
    /\ call.op = "reconnect_to_hardware"
    /\ call.pre.sock = "closed"
    /\ client.simulated
    /\ client.sock = "none"

(***************************************************************************)
(* What a fallback leaves stored (specification SpecClient).               *)
(***************************************************************************)
\* C33: a client that has fallen back to simulated mode stores workstation 0
\* and the simulator's site and dss, and a later reconnect_to_hardware()
\* attempts workstation 0 of that site.
C33_ReconnectUsesSimulatorStation ==
    /\ client.simulated
       => (client.wsn = 0 /\ client.site = "CDSCC" /\ client.dss = I(43))
    /\ [][/\ client'.simulated
             => (client'.wsn = 0 /\ client'.site = "CDSCC" /\ client'.dss = I(43))
          /\ (client.simulated /\ call'.op = "reconnect_to_hardware")
             => /\ client'.wsn = 0
                /\ client'.site = "CDSCC"
                /\ call'.ret.v.wsn = 0]_vars

\* a reconnect of a client that had fallen back has connected
C33_Witness ==
    /\ call.op = "reconnect_to_hardware"
    /\ call.pre.simulated
    /\ ~client.simulated
    /\ client.sock = "open"
    /\ client.wsn = 0
    /\ client.site = "CDSCC"

(***************************************************************************)
(* Freedom from blocking on the lock (specification SpecRate).             *)
(***************************************************************************)
\* C34: nothing blocks forever on the lock: whoever holds it has an enabled
\* next step that does not ask for the lock, that step releases it, and the
\* lock is taken only when it is free.
C34_LockNeverBlocksForever ==
    /\ [](\A c \in Ctx : lock = c => ENABLED SetOffsetWriteAccum(c))
    /\ [][\A c \in Ctx :
            /\ (lock = c /\ pc'[c] # pc[c]) => lock' = 0
            /\ (lock' = c /\ lock # c) => lock = 0]_vars

\* the caller is between the two stores of set_offset while a rate
\* integrator is about to ask for the lock
C34_Witness ==
    /\ lock = 3
    /\ \E t \in 1..MaxThreads :
          t <= Len(threads) /\ threads[t].tpc \in {"read", "write"}

(***************************************************************************)
(* Settling of the position tracker (specification SpecSettle).            *)
(***************************************************************************)
\* ticks an axis still needs: ceil(|predicted - actual| / slew_rate)
Remaining(p) == (Abs(p.predicted - p.actual) + slew_rate - 1) \div slew_rate

\* C35: with a fixed target and a tracker that is not stopped, every tick
\* takes one from the ticks an axis still needs, down to none, so actual
\* equals predicted after at most ceil(|predicted - actual| / step) ticks;
\* and from some tick on actual equals predicted on both axes for ever.
C35_SettlesOnFixedTarget ==
    /\ [][\A ax \in {"AZ", "EL"} :
            (threads # <<>> /\ point'[ax].actual # point[ax].actual)
            => /\ point'[ax].predicted = point[ax].predicted
               /\ Remaining(point'[ax]) = Remaining(point[ax]) - 1]_vars
    /\ [][\A ax \in {"AZ", "EL"} :
            ( /\ threads # <<>>
              /\ threads[1].tpc = (IF ax = "AZ" THEN "mv_az" ELSE "mv_el")
              /\ threads'[1].tpc # threads[1].tpc
              /\ Remaining(point[ax]) > 0 )
            => point'[ax].actual # point[ax].actual]_vars
    /\ [](threads # <<>>
          => <>[](\A ax \in {"AZ", "EL"} : point[ax].actual = point[ax].predicted))

\* the azimuth has arrived after nine ticks of 0.23 degree
C35_Witness ==
    /\ threads # <<>>
    /\ threads[1].tgt = <<AzStart + 2 * Scale, ElStart - 300>>
    /\ threads[1].tpc = "store"
    /\ point["AZ"].actual = AzStart + 2 * Scale
    /\ point["EL"].actual = ElStart - 300

(***************************************************************************)
(* Requests for unregistered parameters (specification SpecClient).        *)
(***************************************************************************)
\* C36 (as the specification states it): the server answers a PARAM request
\* with the values of the registered names only, so a get() of a connected
\* client that names an unregistered parameter receives fewer fields than it
\* asked for and returns None for every requested name.
C36_UnregisteredNameGivesNulls ==
    ( /\ call.op = "get"
      /\ WasConnected
      /\ \E i \in 1..Len(call.args) : call.args[i] = S(Chars["Bogus"]) )
    => call.ret = NoneDict(call.args)

(***************************************************************************)
(* RO and PO requests of the wrong length (specification SpecRate).        *)
(***************************************************************************)
\* C37: an RO or PO request that is not four tokens long is answered
\* REJECTED at once, changes no offset, accumulated value or rate, and
\* neither stops nor starts a worker.
C37_WrongLengthRejected ==
    [][\A c \in Ctx :
          ( /\ Len(hist'[c]) = Len(hist[c]) + 1
            /\ hist'[c][Len(hist'[c])].h \in {"RO", "PO"}
            /\ Len(hist'[c][Len(hist'[c])].args) # 4 )
          => /\ hist'[c][Len(hist'[c])].resp = S(Chars["REJECTED"])
             /\ pc[c] = "idle"
             /\ UNCHANGED <<pc, offsets, threads, offset_rate_thread, lock>>]_vars

\* a request with a fifth token was rejected while a rate integrator started
\* by an earlier request is running
C37_Witness ==
    /\ Len(hist[3]) = 2
    /\ hist[3][2].h = "PO"
    /\ Len(hist[3][2].args) = 5
    /\ hist[3][2].resp = S(Chars["REJECTED"])
    /\ \E t \in 1..MaxThreads :
          t <= Len(threads) /\ threads[t].kind = "rate" /\ threads[t].tpc = "read"

(***************************************************************************)
(* What set_offset writes (specification SpecRate).                        *)
(***************************************************************************)
\* C38: set_offset(axis, v) stores v as the axis's offset and as its
\* accumulated value, whatever the rate integrator had accumulated, and
\* changes neither the axis's rate nor any field of the other axis: its
\* first store changes the offset alone, nothing else is written while it
\* holds the lock, and its second store changes the accumulated value alone
\* and leaves both fields equal to v.
C38_SetOffsetWritesBothFields ==
    [][\A c \in Ctx :
          LET ax == AxisKey(OffsetAxes, PyUpper(loc[c].a1))
              v  == PyFloat(loc[c].a2).v
          IN  /\ (pc[c] = "so_get" /\ pc'[c] # "so_get") => offsets' = offsets
              /\ (pc[c] = "so_w1" /\ pc'[c] # "so_w1")
                    => offsets' = [offsets EXCEPT ![ax].offset = v]
              /\ (pc[c] = "so_w2" /\ pc'[c] = "so_w2") => offsets' = offsets
              /\ (pc[c] = "so_w2" /\ pc'[c] # "so_w2")
                    => /\ offsets' = [offsets EXCEPT ![ax].accumulated = v]
                       /\ offsets'[ax].offset = v]_vars

\* set_offset has returned with both fields at 5.0 and the rate at 1.0 while
\* the integrator still holds the 1.0 it had accumulated and read before
C38_Witness ==
    /\ pc[3] = "idle"
    /\ hist[3] # <<>>
    /\ hist[3][Len(hist[3])].h = "PO"
    /\ hist[3][Len(hist[3])].resp = S(Chars["COMPLETED"])
    /\ offsets["EL"].offset = 5 * Scale
    /\ offsets["EL"].accumulated = 5 * Scale
    /\ offsets["EL"].rate = Scale
    /\ \E t \in 1..MaxThreads :
          /\ t <= Len(threads)
          /\ threads[t].kind = "rate" /\ threads[t].tpc = "write"
          /\ threads[t].axis = "EL" /\ threads[t].cur = Scale

(***************************************************************************)
(* The ONSOURCE counter (specification SpecCounter).                       *)
(***************************************************************************)
CountResp(h, r) == Cardinality({i \in 1..Len(h) : h[i].resp = r})

\* C39: whatever the interleaving of the ONSOURCE requests of the
\* connections, the counter stays within 0..3 and one reply in four is
\* COMPLETED ONSOURCE, the others being COMPLETED SLEWING.
C39_OnsourceEveryFourth ==
    LET onsrc == CountResp(hist[1], SentFor(S(Chars["COMPLETED ONSOURCE"])))
                 + CountResp(hist[2], SentFor(S(Chars["COMPLETED ONSOURCE"])))
        slew  == CountResp(hist[1], SentFor(S(Chars["COMPLETED SLEWING"])))
                 + CountResp(hist[2], SentFor(S(Chars["COMPLETED SLEWING"])))
    IN  /\ onsource_counter \in 0..3
        /\ onsrc + slew = Len(hist[1]) + Len(hist[2])
        /\ onsrc = (onsrc + slew) \div 4

====
